---- MODULE Spec2Model ----
(***************************************************************************)
(* Verification model of the rhiz-api trust graph core:                    *)
(*   - PathFinder.find_path with the Redis path cache                      *)
(*     (services/pathfinder.py, services/cache_service.py)                 *)
(*   - ConvictionCalculator.calculate_conviction (services/conviction.py)  *)
(*                                                                         *)
(* Number formats.  The Python code computes in floats; the model uses     *)
(* fixed point with truncation:                                            *)
(*   strength            hundredths   (the 0-100 scale of the pathfinder)  *)
(*   min_strength        hundredths   (0.3 is 30)                          *)
(*   trust / consensus   thousandths  (1.0 is 1000)                        *)
(*   edge cost, f, g, h  hundredths   (0.1 is 10)                          *)
(* exp() and 0.5 ** x are tabulated for the ages the model uses.           *)
(* Conviction weights are exact fractions, so the score is int() of the    *)
(* exact value; the float code can be one point lower where the exact      *)
(* value is a whole number.                                                *)
(* The md5 fingerprint of the normalised query parameters is modelled as   *)
(* the normalised parameters themselves (no collisions).  The range        *)
(* constraint of the GraphHop schema (strength <= 1.0) is not modelled:    *)
(* hops carry the relationship strength on the pathfinder's own scale.     *)
(***************************************************************************)
EXTENDS Integers, Sequences, FiniteSets, TLC

VARIABLES
    rels,        \* rows of the relationships table, in query order
    params,      \* query constraints and the two entities queried in a run
    cache,       \* Redis path cache: cache key -> cached dict
    lastCall,    \* the last find_path call: from, to, what served it
    lastResult,  \* what that call returned (or raised)
    deletedRels, \* relationships whose relationship-deleted event was processed
    atts,        \* attestations recorded for one target, oldest first
    conviction,  \* result of calculate_conviction over atts
    decay,       \* the last pair of decayed contributions computed
    enable_privacy, \* TrustEngine.enable_privacy
    trustScore,  \* the last calculate_trust_score call and what it returned
    trustMetrics, \* trust_metrics table: entity -> persisted trust_score
    attTable,    \* attestations table, rows of one target: uri -> row
    scoreRow,    \* conviction_scores row of that target
    ingest,      \* attestation ingestions in flight: process -> position
    scoreReply,  \* what the last getScore query returned
    pipeConfig,  \* EventPipeline constructor arguments
    queues,      \* EventPipeline._queues: priority -> queued events, oldest first
    metrics,     \* EventPipeline._metrics
    lastEnqueue, \* the last enqueue call and what it returned
    running,     \* EventPipeline._running
    workers,     \* worker task -> where it stands in EventPipeline._worker
    dead_letter, \* EventPipeline._dead_letter
    processed_events, \* events handed to processor.process, in call order
    accepted,    \* events for which a caller's enqueue returned True
    memCache,    \* MemoryCacheBackend._cache: entries in dict (insertion) order
    memMaxSize,  \* MemoryCacheBackend._max_size
    memLast,     \* the last MemoryCacheBackend call, the cache before it, its result
    svcConfig,   \* CacheService constructor arguments, and whether Redis answers
    svcRedis,    \* contents of the Redis server: key -> serialized value
    svcFallback, \* CacheService._fallback._cache
    svcWritten,  \* key -> value of the last CacheService.set of the key
    svcLast      \* the last CacheService call and its result

vars == <<rels, params, cache, lastCall, lastResult, deletedRels, atts, conviction, decay,
          enable_privacy, trustScore, trustMetrics,
          attTable, scoreRow, ingest, scoreReply,
          pipeConfig, queues, metrics, lastEnqueue,
          running, workers, dead_letter, processed_events, accepted,
          memCache, memMaxSize, memLast,
          svcConfig, svcRedis, svcFallback, svcWritten, svcLast>>

pathVars == <<rels, params, cache, lastCall, lastResult, deletedRels>>
convVars == <<atts, conviction>>
decayVars == <<decay>>
trustVars == <<enable_privacy, trustScore, trustMetrics>>
storeVars == <<attTable, scoreRow, ingest, scoreReply>>
pipeVars == <<pipeConfig, queues, metrics, lastEnqueue,
              running, workers, dead_letter, processed_events, accepted>>
memVars == <<memCache, memMaxSize, memLast>>
svcVars == <<svcConfig, svcRedis, svcFallback, svcWritten, svcLast>>

----------------------------------------------------------------------------
(* Bounds and input domains *)

MaxHopsInput == 3
MaxAttestations == 2
MaxDepthInput == 2
MaxIngestions == 2
MaxQueueSize == 10
MaxEvents == 2
MaxCacheSize == 2

Entities == 1..4

Algorithms == {"astar", "dijkstra", "bfs"}

\* The relationship rows a snapshot of the table is drawn from.
\* days = whole days since last_interaction; consensus in thousandths.
Catalog == <<
  [id |-> "r1", entity_a_id |-> 1, entity_b_id |-> 2, strength |-> 100,
   days |-> 0, consensus_score |-> 0, verifier_count |-> 0, type |-> "professional"],
  [id |-> "r2", entity_a_id |-> 2, entity_b_id |-> 3, strength |-> 100,
   days |-> 0, consensus_score |-> 900, verifier_count |-> 10, type |-> "professional"],
  [id |-> "r3", entity_a_id |-> 1, entity_b_id |-> 3, strength |-> 80,
   days |-> 0, consensus_score |-> 500, verifier_count |-> 0, type |-> "professional"],
  [id |-> "r4", entity_a_id |-> 3, entity_b_id |-> 4, strength |-> 80,
   days |-> 0, consensus_score |-> 0, verifier_count |-> 0, type |-> "personal"],
  [id |-> "r5", entity_a_id |-> 1, entity_b_id |-> 4, strength |-> 30,
   days |-> 3650, consensus_score |-> 0, verifier_count |-> 0, type |-> "professional"] >>

\* (min_strength, relationship_types) combinations offered to find_path
FilterSettings == {
  [min_strength |-> 0,  relationship_types |-> <<>>],
  [min_strength |-> 90, relationship_types |-> <<>>],
  [min_strength |-> 0,  relationship_types |-> <<"professional">>] }

ExcludeSets == {{}, {1}, {2, 3}}

----------------------------------------------------------------------------
(* Generic helpers *)

Min(a, b) == IF a <= b THEN a ELSE b
Max(a, b) == IF a >= b THEN a ELSE b

RECURSIVE SeqSum(_)
SeqSum(s) == IF s = <<>> THEN 0 ELSE Head(s) + SeqSum(Tail(s))

SeqToSet(s) == {s[i] : i \in 1..Len(s)}

\* every ordering of a finite set as a list without repetition
Orderings(S) ==
  {s \in [1..Cardinality(S) -> S] : \A i, j \in 1..Cardinality(S) : s[i] = s[j] => i = j}

\* Python's sorted() on a list of comparable items
RECURSIVE Sorted(_)
Sorted(s) ==
  IF Len(s) <= 1 THEN s
  ELSE LET m == CHOOSE i \in 1..Len(s) : \A j \in 1..Len(s) : s[i] <= s[j]
           rest == [k \in 1..(Len(s) - 1) |-> IF k < m THEN s[k] ELSE s[k + 1]]
       IN <<s[m]>> \o Sorted(rest)

\* rows of Catalog whose index is in S, in table order
RECURSIVE SelectRows(_, _)
SelectRows(S, i) ==
  IF i > Len(Catalog) THEN <<>>
  ELSE (IF i \in S THEN <<Catalog[i]>> ELSE <<>>) \o SelectRows(S, i + 1)

\* Snapshots of the relationships table: Catalog, or Catalog without one row
Snapshots ==
  {SelectRows(1..Len(Catalog), 1)} \cup
  {SelectRows((1..Len(Catalog)) \ {i}, 1) : i \in 1..Len(Catalog)}

\* The cache entries of find_path(f, t, ...) are keyed by f and t and are
\* read and written by calls between f and t only, so a run queries one
\* pair of entities, in both directions and as self-queries.
EntityPairs == {{a, b} : a, b \in Entities}

----------------------------------------------------------------------------
(* PathFinder: graph construction *)

\* a decay factor that ignores the age
ExpDecayFrozen(days) == 1000

\* math.exp(-days / 365.25) in thousandths, for the ages the model uses
ExpDecay(days) ==
  CASE days = 0    -> 1000
    [] days = 365  -> 368
    [] days = 730  -> 135
    [] days = 842  -> 99
    [] days = 3650 -> 0

\* PathFinder._calculate_relationship_trust, thousandths
CalculateRelationshipTrust(rel) ==
  LET base_strength == rel.strength * 10
      decayed == Max(base_strength \div 10, (base_strength * ExpDecay(rel.days)) \div 1000)
      verification_boost == Min(200, (rel.verifier_count * 1000) \div 50)
  IN Min(1000, decayed + verification_boost)

\* the WHERE clause of _build_enhanced_graph
RelationshipSelected(rel, min_strength, relationship_types) ==
  /\ rel.strength >= Max(min_strength, 30)
  /\ (relationship_types # <<>> => rel.type \in SeqToSet(relationship_types))

EdgeData(rel, to) ==
  [to |-> to, relationship_id |-> rel.id, strength |-> rel.strength,
   trust_score |-> CalculateRelationshipTrust(rel),
   verification_score |-> rel.consensus_score]

\* adjacency list of entity n: one edge per selected row that touches n, in row order
RECURSIVE Adjacency(_, _, _, _)
Adjacency(rows, n, min_strength, relationship_types) ==
  IF rows = <<>> THEN <<>>
  ELSE LET rel == Head(rows)
           here == IF ~RelationshipSelected(rel, min_strength, relationship_types) THEN <<>>
                   ELSE IF rel.entity_a_id = n THEN <<EdgeData(rel, rel.entity_b_id)>>
                   ELSE IF rel.entity_b_id = n THEN <<EdgeData(rel, rel.entity_a_id)>>
                   ELSE <<>>
       IN here \o Adjacency(Tail(rows), n, min_strength, relationship_types)

\* PathFinder._build_enhanced_graph; "n in graph" is InGraph(graph, n)
BuildEnhancedGraph(rows, min_strength, relationship_types) ==
  [n \in Entities |-> Adjacency(rows, n, min_strength, relationship_types)]

InGraph(graph, n) == graph[n] # <<>>

\* PathFinder._calculate_edge_cost, hundredths
CalculateEdgeCost(edge_info) ==
  LET combined_trust == Min(1000, edge_info.trust_score + edge_info.verification_score \div 10)
      cost == 1000 - combined_trust
  IN Max(10, cost)

\* PathFinder._trust_heuristic, hundredths
TrustHeuristic(current, target, graph) ==
  IF current = target THEN 0
  ELSE IF graph[current] = <<>> THEN 500
  ELSE LET trusts == [i \in 1..Len(graph[current]) |-> graph[current][i].trust_score]
           avg_trust == SeqSum(trusts) \div Len(trusts)
       IN (1000 - avg_trust) * 2

NotFoundPath == [found |-> FALSE, path |-> <<>>]
FoundPath(p) == [found |-> TRUE, path |-> p]

\* hop limit tested one hop too late
HopLimitReachedLate(path, max_hops) == Len(path) > max_hops

\* the "Check hop limit" test of the three searches
HopLimitReached(path, max_hops) == Len(path) >= max_hops

\* the "Skip excluded entities" test of the three searches
IsExcluded(neighbor, exclude) == neighbor \in SeqToSet(exclude)

----------------------------------------------------------------------------
(* PathFinder: the three searches.  A search returns NotFoundPath (None)   *)
(* or FoundPath(list of edges).                                            *)

\* _bfs_path: the for-loop over the neighbours of current, from index i on
RECURSIVE BfsNeighbors(_, _, _, _, _, _, _, _)
BfsNeighbors(graph, end, exclude, current, path, i, queue, visited) ==
  IF i > Len(graph[current])
  THEN [found |-> FALSE, path |-> <<>>, queue |-> queue, visited |-> visited]
  ELSE LET neighbor_info == graph[current][i]
           neighbor == neighbor_info.to
       IN IF IsExcluded(neighbor, exclude)
          THEN BfsNeighbors(graph, end, exclude, current, path, i + 1, queue, visited)
          ELSE IF neighbor = end
          THEN [found |-> TRUE, path |-> Append(path, neighbor_info),
                queue |-> queue, visited |-> visited]
          ELSE IF neighbor \notin visited
          THEN BfsNeighbors(graph, end, exclude, current, path, i + 1,
                            Append(queue, <<neighbor, Append(path, neighbor_info)>>),
                            visited \cup {neighbor})
          ELSE BfsNeighbors(graph, end, exclude, current, path, i + 1, queue, visited)

\* _bfs_path: the while-loop over the queue
RECURSIVE BfsLoop(_, _, _, _, _, _)
BfsLoop(graph, end, max_hops, exclude, queue, visited) ==
  IF queue = <<>> THEN NotFoundPath
  ELSE LET current == Head(queue)[1]
           path == Head(queue)[2]
       IN IF HopLimitReached(path, max_hops)
          THEN BfsLoop(graph, end, max_hops, exclude, Tail(queue), visited)
          ELSE LET r == BfsNeighbors(graph, end, exclude, current, path, 1,
                                     Tail(queue), visited)
               IN IF r.found THEN FoundPath(r.path)
                  ELSE BfsLoop(graph, end, max_hops, exclude, r.queue, r.visited)

BfsPath(graph, start, end, max_hops, exclude) ==
  IF ~InGraph(graph, start) \/ ~InGraph(graph, end) THEN NotFoundPath
  ELSE BfsLoop(graph, end, max_hops, exclude, << <<start, <<>> >> >>, {start})

\* heapq order on (cost, node, path) and (f, g, node, path) tuples: the
\* entries of one heap never agree on both the leading scores and the node
HeapLess(x, y) ==
  \/ x.key[1] < y.key[1]
  \/ x.key[1] = y.key[1] /\ x.key[2] < y.key[2]
  \/ x.key[1] = y.key[1] /\ x.key[2] = y.key[2] /\ x.key[3] < y.key[3]

HeapPop(heap) == CHOOSE x \in heap : \A y \in heap \ {x} : HeapLess(x, y)

\* _dijkstra_path: the for-loop over the neighbours of current, from index i on
RECURSIVE DijkstraNeighbors(_, _, _, _, _, _, _, _, _)
DijkstraNeighbors(graph, exclude, current, current_cost, path, i, pq, visited, distances) ==
  IF i > Len(graph[current]) THEN [pq |-> pq, distances |-> distances]
  ELSE LET neighbor_info == graph[current][i]
           neighbor == neighbor_info.to
           new_cost == current_cost + CalculateEdgeCost(neighbor_info)
       IN IF IsExcluded(neighbor, exclude) \/ neighbor \in visited
          THEN DijkstraNeighbors(graph, exclude, current, current_cost, path, i + 1,
                                 pq, visited, distances)
          ELSE IF neighbor \notin DOMAIN distances \/ new_cost < distances[neighbor]
          THEN DijkstraNeighbors(graph, exclude, current, current_cost, path, i + 1,
                 pq \cup {[key |-> <<new_cost, neighbor, 0>>, node |-> neighbor,
                           cost |-> new_cost, path |-> Append(path, neighbor_info)]},
                 visited, (neighbor :> new_cost) @@ distances)
          ELSE DijkstraNeighbors(graph, exclude, current, current_cost, path, i + 1,
                                 pq, visited, distances)

\* _dijkstra_path: the while-loop over the priority queue
RECURSIVE DijkstraLoop(_, _, _, _, _, _, _)
DijkstraLoop(graph, end, max_hops, exclude, pq, visited, distances) ==
  IF pq = {} THEN NotFoundPath
  ELSE LET top == HeapPop(pq)
           rest == pq \ {top}
       IN IF top.node \in visited
          THEN DijkstraLoop(graph, end, max_hops, exclude, rest, visited, distances)
          ELSE IF HopLimitReached(top.path, max_hops)
          THEN DijkstraLoop(graph, end, max_hops, exclude, rest,
                            visited \cup {top.node}, distances)
          ELSE IF top.node = end THEN FoundPath(top.path)
          ELSE LET r == DijkstraNeighbors(graph, exclude, top.node, top.cost, top.path, 1,
                                          rest, visited \cup {top.node}, distances)
               IN DijkstraLoop(graph, end, max_hops, exclude, r.pq,
                               visited \cup {top.node}, r.distances)

DijkstraPath(graph, start, end, max_hops, exclude) ==
  IF ~InGraph(graph, start) THEN NotFoundPath
  ELSE DijkstraLoop(graph, end, max_hops, exclude,
                    {[key |-> <<0, start, 0>>, node |-> start, cost |-> 0, path |-> <<>>]},
                    {}, (start :> 0))

\* _astar_path: the for-loop over the neighbours of current, from index i on
RECURSIVE AstarNeighbors(_, _, _, _, _, _, _, _, _, _)
AstarNeighbors(graph, end, exclude, current, g_score, path, i, open_set, closed_set, g_scores) ==
  IF i > Len(graph[current]) THEN [open_set |-> open_set, g_scores |-> g_scores]
  ELSE LET neighbor_info == graph[current][i]
           neighbor == neighbor_info.to
           tentative_g == g_score + CalculateEdgeCost(neighbor_info)
           f_score == tentative_g + TrustHeuristic(neighbor, end, graph)
       IN IF IsExcluded(neighbor, exclude) \/ neighbor \in closed_set
          THEN AstarNeighbors(graph, end, exclude, current, g_score, path, i + 1,
                              open_set, closed_set, g_scores)
          ELSE IF neighbor \in DOMAIN g_scores /\ tentative_g >= g_scores[neighbor]
          THEN AstarNeighbors(graph, end, exclude, current, g_score, path, i + 1,
                              open_set, closed_set, g_scores)
          ELSE AstarNeighbors(graph, end, exclude, current, g_score, path, i + 1,
                 open_set \cup {[key |-> <<f_score, tentative_g, neighbor>>, node |-> neighbor,
                                 cost |-> tentative_g, path |-> Append(path, neighbor_info)]},
                 closed_set, (neighbor :> tentative_g) @@ g_scores)

\* _astar_path: the while-loop over the open set
RECURSIVE AstarLoop(_, _, _, _, _, _, _)
AstarLoop(graph, end, max_hops, exclude, open_set, closed_set, g_scores) ==
  IF open_set = {} THEN NotFoundPath
  ELSE LET top == HeapPop(open_set)
           rest == open_set \ {top}
       IN IF top.node \in closed_set
          THEN AstarLoop(graph, end, max_hops, exclude, rest, closed_set, g_scores)
          ELSE IF HopLimitReached(top.path, max_hops)
          THEN AstarLoop(graph, end, max_hops, exclude, rest,
                         closed_set \cup {top.node}, g_scores)
          ELSE IF top.node = end THEN FoundPath(top.path)
          ELSE LET r == AstarNeighbors(graph, end, exclude, top.node, top.cost, top.path, 1,
                                       rest, closed_set \cup {top.node}, g_scores)
               IN AstarLoop(graph, end, max_hops, exclude, r.open_set,
                            closed_set \cup {top.node}, r.g_scores)

AstarPath(graph, start, end, max_hops, exclude) ==
  IF ~InGraph(graph, start) \/ ~InGraph(graph, end) THEN NotFoundPath
  ELSE AstarLoop(graph, end, max_hops, exclude,
                 {[key |-> <<0, 0, start>>, node |-> start, cost |-> 0, path |-> <<>>]},
                 {}, (start :> 0))

----------------------------------------------------------------------------
(* PathFinder: response construction *)

\* 0.9 ** k in thousandths
RECURSIVE LengthPenalty(_)
LengthPenalty(k) == IF k <= 0 THEN 1000 ELSE (LengthPenalty(k - 1) * 9) \div 10

\* list comprehension [s for s in trust_scores if s > 0]
RECURSIVE ValidScores(_)
ValidScores(trust_scores) ==
  IF trust_scores = <<>> THEN <<>>
  ELSE (IF Head(trust_scores) > 0 THEN <<Head(trust_scores)>> ELSE <<>>)
       \o ValidScores(Tail(trust_scores))

\* PathFinder._calculate_path_trust_strength, thousandths
CalculatePathTrustStrength(trust_scores) ==
  LET valid_scores == ValidScores(trust_scores)
      n == Len(valid_scores)
      inverses == [i \in 1..n |-> 1000000 \div valid_scores[i]]
  IN IF trust_scores = <<>> \/ valid_scores = <<>> THEN 0
     ELSE Min(1000, (((n * 1000000) \div SeqSum(inverses))
                     * LengthPenalty(Len(trust_scores) - 1)) \div 1000)

NotFound == [kind |-> "NotFound"]
CacheError == [kind |-> "Error"]

\* PathFinder._path_to_response_enhanced
PathToResponseEnhanced(path, from_entity, to_entity) ==
  [kind |-> "Path",
   from_entity |-> from_entity,
   to_entity |-> to_entity,
   hops |-> [i \in 1..Len(path) |->
               [from_entity |-> IF i = 1 THEN from_entity ELSE path[i - 1].to,
                to_entity |-> path[i].to,
                relationship_id |-> path[i].relationship_id,
                strength |-> path[i].strength]],
   total_strength |-> CalculatePathTrustStrength([i \in 1..Len(path) |-> path[i].trust_score]),
   distance |-> Len(path)]

\* PathFinder._graph_path_response_to_dict
GraphPathResponseToDict(response) ==
  [from_entity |-> response.from_entity,
   to_entity |-> response.to_entity,
   hops |-> [i \in 1..Len(response.hops) |->
               [from_entity |-> response.hops[i].from_entity,
                to_entity |-> response.hops[i].to_entity,
                relationship_id |-> response.hops[i].relationship_id,
                strength |-> response.hops[i].strength]],
   total_strength |-> response.total_strength,
   distance |-> response.distance]

\* PathFinder._dict_to_graph_path_response
DictToGraphPathResponse(data) ==
  [kind |-> "Path",
   from_entity |-> data.from_entity,
   to_entity |-> data.to_entity,
   hops |-> [i \in 1..Len(data.hops) |->
               [from_entity |-> data.hops[i].from_entity,
                to_entity |-> data.hops[i].to_entity,
                relationship_id |-> data.hops[i].relationship_id,
                strength |-> data.hops[i].strength]],
   total_strength |-> data.total_strength,
   distance |-> data.distance]

----------------------------------------------------------------------------
(* CacheService: the path cache *)

EmptyCache == [k \in {} |-> {}]

\* CacheService._generate_path_cache_key
GeneratePathCacheKey(from_entity, to_entity, query_params) ==
  <<from_entity, to_entity,
    [max_hops |-> query_params.max_hops,
     min_strength |-> query_params.min_strength,
     relationship_types |-> Sorted(query_params.relationship_types),
     exclude_entities |-> Sorted(query_params.exclude_entities),
     algorithm |-> query_params.algorithm]>>

\* CacheService._reverse_path_result
ReversePathResult(path_result) ==
  IF path_result.hops = <<>> THEN path_result
  ELSE LET n == Len(path_result.hops)
       IN [path_result EXCEPT
             !.from_entity = path_result.to_entity,
             !.to_entity = path_result.from_entity,
             !.hops = [i \in 1..n |->
                         [from_entity |-> path_result.hops[n + 1 - i].to_entity,
                          to_entity |-> path_result.hops[n + 1 - i].from_entity,
                          relationship_id |-> path_result.hops[n + 1 - i].relationship_id,
                          strength |-> path_result.hops[n + 1 - i].strength]]]

\* redis.setex
Setex(c, key, value) == (key :> value) @@ c

\* CacheService.cache_path_result; fault names the Redis command that raises
CachePathResult(c, from_entity, to_entity, path_result, query_params, fault) ==
  LET cache_key == GeneratePathCacheKey(from_entity, to_entity, query_params)
      reverse_key == GeneratePathCacheKey(to_entity, from_entity, query_params)
      forward == Setex(c, cache_key, path_result)
  IN IF fault = "setex" THEN [raised |-> TRUE, cache |-> c]
     ELSE IF fault = "setex_reverse" THEN [raised |-> TRUE, cache |-> forward]
     ELSE [raised |-> FALSE,
           cache |-> Setex(forward, reverse_key, ReversePathResult(path_result))]

\* CacheService.get_cached_path: the entry, or None (hit = FALSE)
GetCachedPath(c, from_entity, to_entity, query_params) ==
  LET cache_key == GeneratePathCacheKey(from_entity, to_entity, query_params)
  IN IF cache_key \in DOMAIN c THEN [hit |-> TRUE, data |-> c[cache_key]]
     ELSE [hit |-> FALSE, data |-> <<>>]

----------------------------------------------------------------------------
(* PathFinder.find_path *)

\* find_path without the self-query test
SameEntityUnchecked(from_entity, to_entity) == FALSE

\* the "Handle direct connection" test
SameEntity(from_entity, to_entity) == from_entity = to_entity

\* the algorithm dispatch of find_path
RunSearch(graph, from_entity, to_entity, max_hops, exclude, algorithm) ==
  IF algorithm = "astar" THEN AstarPath(graph, from_entity, to_entity, max_hops, exclude)
  ELSE IF algorithm = "dijkstra"
  THEN DijkstraPath(graph, from_entity, to_entity, max_hops, exclude)
  ELSE BfsPath(graph, from_entity, to_entity, max_hops, exclude)

\* find_path over table rows `rows` and cache c.  Returns the response,
\* the cache afterwards and what served the call.
FindPath(rows, c, from_entity, to_entity, query_params, fault) ==
  IF SameEntity(from_entity, to_entity)
  THEN [result |-> NotFound, cache |-> c, source |-> "self"]
  ELSE IF fault = "get"
  THEN [result |-> CacheError, cache |-> c, source |-> "fault"]
  ELSE LET cached_result == GetCachedPath(c, from_entity, to_entity, query_params)
       IN IF cached_result.hit
          THEN [result |-> DictToGraphPathResponse(cached_result.data),
                cache |-> c, source |-> "cache"]
          ELSE LET graph == BuildEnhancedGraph(rows, query_params.min_strength,
                                                 query_params.relationship_types)
                   found == RunSearch(graph, from_entity, to_entity, query_params.max_hops,
                                      query_params.exclude_entities, query_params.algorithm)
                   result == PathToResponseEnhanced(found.path, from_entity, to_entity)
                   written == CachePathResult(c, from_entity, to_entity,
                                              GraphPathResponseToDict(result),
                                              query_params, fault)
               IN IF ~found.found \/ found.path = <<>>
                  THEN [result |-> NotFound, cache |-> c, source |-> "search"]
                  ELSE IF written.raised
                  THEN [result |-> CacheError, cache |-> written.cache, source |-> "fault"]
                  ELSE [result |-> result, cache |-> written.cache, source |-> "search"]

----------------------------------------------------------------------------
(* State machine of the path queries *)

Faults == {"none", "get", "setex", "setex_reverse"}

NoCall == [from_entity |-> 0, to_entity |-> 0, source |-> "none", raised |-> "none"]

\* the query_params dict of one call
QueryParams(exclude) ==
  [max_hops |-> params.max_hops,
   min_strength |-> params.min_strength,
   relationship_types |-> params.relationship_types,
   exclude_entities |-> exclude,
   algorithm |-> params.algorithm]

InitPath ==
  /\ rels \in Snapshots
  /\ params \in {[max_hops |-> h, min_strength |-> f.min_strength,
                  relationship_types |-> f.relationship_types,
                  exclude |-> x, algorithm |-> a, queried |-> q] :
                 h \in 1..MaxHopsInput, f \in FilterSettings,
                 x \in ExcludeSets, a \in Algorithms, q \in EntityPairs}
  /\ cache = EmptyCache
  /\ lastCall = NoCall
  /\ lastResult = [kind |-> "NoCall"]
  /\ deletedRels = {}

InitPathIdle ==
  /\ rels = <<>>
  /\ params = [max_hops |-> 1, min_strength |-> 0, relationship_types |-> <<>>,
               exclude |-> {}, algorithm |-> "bfs", queried |-> {1}]
  /\ cache = EmptyCache
  /\ lastCall = NoCall
  /\ lastResult = [kind |-> "NoCall"]
  /\ deletedRels = {}

\* one find_path(from, to, ...) call from start to return
CallFindPath(from_entity, to_entity, exclude, fault) ==
  LET r == FindPath(rels, cache, from_entity, to_entity, QueryParams(exclude), fault)
  IN /\ cache' = r.cache
     /\ lastCall' = [from_entity |-> from_entity, to_entity |-> to_entity,
                     source |-> r.source,
                     raised |-> IF r.source = "fault" THEN fault ELSE "none"]
     /\ lastResult' = r.result
     /\ UNCHANGED <<rels, params, deletedRels>>

----------------------------------------------------------------------------
(* RelationshipEventProcessor: a relationship-deleted event.  The handler  *)
(* deletes the row and clears, for each participant the payload names, the *)
(* keys matching "graph:*{did}*" in the unified cache.  The unified cache  *)
(* is taken to clear keys of the Redis keyspace that holds the path cache, *)
(* and participants are named by the identifiers find_path is called with. *)

\* the key f"path:{from_entity}:{to_entity}:{param_hash}", by its fields
PathKeyFields(key) == <<"path", key[1], key[2], key[3]>>

\* the glob f"graph:*{did}*"
GraphPattern(did) == [prefix |-> "graph", infix |-> did]

\* a key matches prefix + ":*" + infix + "*" when it starts with the prefix
\* field and an entity field after it holds the infix
GlobMatches(pattern, fields) ==
  /\ fields[1] = pattern.prefix
  /\ \E i \in 2..3 : fields[i] = pattern.infix

\* clear_pattern of the unified cache: the keys matching the glob are deleted
UnifiedClearPattern(c, pattern) ==
  LET kept == {k \in DOMAIN c : ~GlobMatches(pattern, PathKeyFields(k))}
  IN [k \in kept |-> c[k]]

\* for did in payload.get("participants", []): clear_pattern(f"graph:*{did}*")
RECURSIVE InvalidateCaches(_, _)
InvalidateCaches(c, participants) ==
  IF participants = <<>> THEN c
  ELSE InvalidateCaches(UnifiedClearPattern(c, GraphPattern(Head(participants))),
                        Tail(participants))

\* DELETE FROM relationships WHERE at_uri = :uri
RECURSIVE DeleteRelationship(_, _)
DeleteRelationship(rows, uri) ==
  IF rows = <<>> THEN <<>>
  ELSE (IF Head(rows).id = uri THEN <<>> ELSE <<Head(rows)>>)
       \o DeleteRelationship(Tail(rows), uri)

\* payloads of relationship-deleted events: the uri of a catalogued
\* relationship, with its two participants or without the key
DeletedPayloads ==
  {[uri |-> Catalog[i].id,
    participants |-> IF named THEN <<Catalog[i].entity_a_id, Catalog[i].entity_b_id>>
                     ELSE <<>>] :
   i \in 1..Len(Catalog), named \in BOOLEAN}

\* RelationshipEventProcessor._handle_deleted, from the DELETE to the
\* cache_invalidation stage result
HandleDeleted(payload) ==
  /\ rels' = DeleteRelationship(rels, payload.uri)
  /\ cache' = InvalidateCaches(cache, payload.participants)
  /\ deletedRels' = deletedRels \cup {payload.uri}
  /\ UNCHANGED <<params, lastCall, lastResult>>
  /\ UNCHANGED <<convVars, decayVars, trustVars, storeVars, pipeVars, memVars, svcVars>>

----------------------------------------------------------------------------
(* ConvictionCalculator.  An attestation is                                *)
(*   [attestation_type, confidence, reputation, age_days]                  *)
(* where reputation is the trust_score of the attester's entity row        *)
(* (0..100) or NoEntity when the lookup finds no row, and age_days is      *)
(* (now - created_at).days.                                                *)
(* A weight is kept as an integer numerator over WeightDenominator:        *)
(*   base (halves) * multiplier (200ths) * decay (1000ths) * conf (100ths) *)

NoEntity == -1

AttestationTypes == {"verify", "dispute", "strengthen", "weaken", "endorse"}
Confidences == {0, 10, 100}
Reputations == {NoEntity, 0, 100}
\* today, one half-life, and 60 half-lives (a record dated decades back)
AgeDays == {0, 180, 10800}

AttestationInputs ==
  [attestation_type : AttestationTypes, confidence : Confidences,
   reputation : Reputations, age_days : AgeDays]

DECAY_HALF_LIFE_DAYS == 180

WeightDenominator == 2 * 200 * 1000 * 100

\* weight numerator that moves the score by one point: each unit of
\* weighted_sum is 25 points
WeightPerPoint == WeightDenominator \div 25

\* base weights with the sign of DISPUTE_WEIGHT lost
BaseWeightPositiveDispute(attestation_type) ==
  CASE attestation_type = "verify" -> 2
    [] attestation_type = "dispute" -> 3
    [] attestation_type = "strengthen" -> 1
    [] attestation_type = "weaken" -> -1
    [] OTHER -> 0

\* VERIFY_WEIGHT, DISPUTE_WEIGHT, STRENGTHEN_WEIGHT, WEAKEN_WEIGHT, in halves;
\* 0.0 for an unknown type
BaseWeight(attestation_type) ==
  CASE attestation_type = "verify" -> 2
    [] attestation_type = "dispute" -> -3
    [] attestation_type = "strengthen" -> 1
    [] attestation_type = "weaken" -> -1
    [] OTHER -> 0

\* the multiplier bounds swapped: the more reputable, the lighter
ReputationMultiplierInverted(reputation) ==
  IF reputation = NoEntity THEN 400 - 3 * 50 ELSE 400 - 3 * reputation

\* MIN_REPUTATION_MULTIPLIER + reputation * (MAX - MIN), in 200ths;
\* reputation 0.5 for an attester without an entity row
ReputationMultiplier(reputation) ==
  IF reputation = NoEntity THEN 100 + 3 * 50 ELSE 100 + 3 * reputation

\* 0.5 ** (age_days / DECAY_HALF_LIFE_DAYS) in thousandths.  A factor below
\* one thousandth is 0: the model uses such a factor only at 60 half-lives
\* (2 ** -60), where 25 * weight is below half an ulp of 50 (2 ** -48), so
\* the float sum 50 + 25 * weighted_sum is 50.0 exactly as with weight 0.
RECURSIVE DecayFactor(_)
DecayFactor(age_days) ==
  IF age_days >= DECAY_HALF_LIFE_DAYS
  THEN DecayFactor(age_days - DECAY_HALF_LIFE_DAYS) \div 2
  ELSE CASE age_days = 0 -> 1000
         [] age_days = 45 -> 841
         [] age_days = 90 -> 707

\* final_weight with its sign inverted
FinalWeightNegated(a) ==
  - BaseWeight(a.attestation_type) * ReputationMultiplier(a.reputation)
    * DecayFactor(a.age_days) * a.confidence

\* final_weight of one attestation, numerator over WeightDenominator
FinalWeight(a) ==
  BaseWeight(a.attestation_type) * ReputationMultiplier(a.reputation)
    * DecayFactor(a.age_days) * a.confidence

\* total_weight accumulating nothing
AbsDropped(x) == 0

\* abs(final_weight)
Abs(x) == IF x < 0 THEN -x ELSE x

\* the quotient rounded to the nearest integer instead
IntNearest(num, den) == (2 * num + den) \div (2 * den)

\* Python int(): truncation toward zero of num / den, den > 0
IntTrunc(num, den) == IF num >= 0 THEN num \div den ELSE -((-num) \div den)

\* score left unclamped
ClampScoreOmitted(x) == x

\* max(0, min(100, conviction_score))
ClampScore(x) == Max(0, Min(100, x))

CountType(attestations, t) ==
  Cardinality({i \in 1..Len(attestations) : attestations[i].attestation_type = t})

\* ConvictionCalculator._calculate_trend: compare 2 * recent_net with
\* 3 * previous_net and previous_net (the code's 1.5 and 0.5 factors)
CalculateTrend(attestations) ==
  LET recent == {i \in 1..Len(attestations) : attestations[i].age_days <= 30}
      previous == {i \in 1..Len(attestations) :
                     attestations[i].age_days > 30 /\ attestations[i].age_days <= 60}
      Net(S) == Cardinality({i \in S : attestations[i].attestation_type = "verify"})
                - Cardinality({i \in S : attestations[i].attestation_type # "verify"})
  IN IF Cardinality(recent) < 3 THEN "stable"
     ELSE IF 2 * Net(recent) > 3 * Net(previous) THEN "increasing"
     ELSE IF 2 * Net(recent) < Net(previous) THEN "decreasing"
     ELSE "stable"

\* ConvictionCalculator._empty_conviction
EmptyConviction ==
  [score |-> 0, attestation_count |-> 0, verify_count |-> 0, dispute_count |-> 0,
   strengthen_count |-> 0, weaken_count |-> 0, trend |-> "stable",
   top_attester_reputation |-> 0]

\* ConvictionCalculator.calculate_conviction
CalculateConviction(attestations) ==
  IF attestations = <<>> THEN EmptyConviction
  ELSE LET n == Len(attestations)
           weighted_sum == SeqSum([i \in 1..n |-> FinalWeight(attestations[i])])
           total_weight == SeqSum([i \in 1..n |-> Abs(FinalWeight(attestations[i]))])
           attester_reputations ==
             {attestations[i].reputation : i \in {j \in 1..n : attestations[j].reputation # NoEntity}}
           conviction_score ==
             IF total_weight = 0 THEN 50
             ELSE ClampScore(IntTrunc(50 * WeightPerPoint + weighted_sum, WeightPerPoint))
       IN [score |-> conviction_score,
           attestation_count |-> n,
           verify_count |-> CountType(attestations, "verify"),
           dispute_count |-> CountType(attestations, "dispute"),
           strengthen_count |-> CountType(attestations, "strengthen"),
           weaken_count |-> CountType(attestations, "weaken"),
           trend |-> CalculateTrend(attestations),
           top_attester_reputation |->
             IF attester_reputations = {} THEN 0
             ELSE CHOOSE r \in attester_reputations : \A q \in attester_reputations : q <= r]

InitConviction ==
  /\ atts = <<>>
  /\ conviction = CalculateConviction(<<>>)

\* a new attestation for the target arrives and conviction is recomputed
\* over the whole list
Attest(a) ==
  /\ Len(atts) < MaxAttestations
  /\ atts' = Append(atts, a)
  /\ conviction' = CalculateConviction(atts')
  /\ UNCHANGED pathVars

\* the reputation lookup of the attester raised (db.execute failed)
LookupFailed == -2

\* calculate_conviction left by an exception
ConvictionRaised == [raised |-> TRUE]

\* calculate_conviction with the except branch of the attester lookup: after
\* a failed db.execute the handler runs db.query(None).filter(None).first()
\* on the same session, which raises on a SQLAlchemy session (only the
\* test double MockDB answers it); nothing catches that second exception.
CalculateConvictionWithDb(attestations) ==
  IF \E i \in 1..Len(attestations) : attestations[i].reputation = LookupFailed
  THEN ConvictionRaised
  ELSE CalculateConviction(attestations)

\* a new attestation arrives; the lookup of its attester answers (a row or
\* no row, as a.reputation says) or fails, now and on every recomputation
AttestWithLookup(a, lookup_fails) ==
  /\ Len(atts) < MaxAttestations
  /\ atts' = Append(atts, IF lookup_fails THEN [a EXCEPT !.reputation = LookupFailed] ELSE a)
  /\ conviction' = CalculateConvictionWithDb(atts')
  /\ UNCHANGED pathVars

----------------------------------------------------------------------------
(* Temporal decay of one contribution.  The conviction weight of an         *)
(* attestation decays with its age (FinalWeight above); the strength of an  *)
(* edge decays in TrustEngine._apply_temporal_decay.  An edge strength is   *)
(* in hundredths (the 0-1 scale after rel.strength / 100.0) and a decayed   *)
(* strength in units of 1e-5, so that strength * factor is not truncated.   *)

\* last_interaction is None
NoInteraction == -1

EdgeStrengths == {0, 30, 100}
EdgeAges == {0, 365, 730, 842, 3650}

\* TrustEngine._apply_temporal_decay
ApplyTemporalDecay(strength, days_since) ==
  IF days_since = NoInteraction THEN strength * 500
  ELSE Max(100 * strength, strength * ExpDecay(days_since))

NoDecay == [kind |-> "none"]

InitDecayIdle == decay = NoDecay

\* the weight of attestation a is computed at two ages (a.age_days is
\* replaced by each)
DecayAttestation(a, newer_age, older_age) ==
  /\ newer_age < older_age
  /\ decay' = [kind |-> "attestation", subject |-> a,
               newer_age |-> newer_age, older_age |-> older_age,
               newer |-> FinalWeight([a EXCEPT !.age_days = newer_age]),
               older |-> FinalWeight([a EXCEPT !.age_days = older_age]),
               floor |-> NoInteraction]
  /\ UNCHANGED <<pathVars, convVars, trustVars, storeVars, pipeVars, memVars, svcVars>>

\* the decayed strength of an edge is computed at two ages
DecayEdge(strength, newer_age, older_age) ==
  /\ newer_age < older_age
  /\ decay' = [kind |-> "edge", subject |-> [strength |-> strength],
               newer_age |-> newer_age, older_age |-> older_age,
               newer |-> ApplyTemporalDecay(strength, newer_age),
               older |-> ApplyTemporalDecay(strength, older_age),
               floor |-> 100 * strength]
  /\ UNCHANGED <<pathVars, convVars, trustVars, storeVars, pipeVars, memVars, svcVars>>

\* the decayed strength of an edge without last_interaction
DecayEdgeNoInteraction(strength) ==
  /\ decay' = [kind |-> "edge_no_interaction", subject |-> [strength |-> strength],
               newer_age |-> NoInteraction, older_age |-> NoInteraction,
               newer |-> ApplyTemporalDecay(strength, NoInteraction),
               older |-> ApplyTemporalDecay(strength, NoInteraction),
               floor |-> 100 * strength]
  /\ UNCHANGED <<pathVars, convVars, trustVars, storeVars, pipeVars, memVars, svcVars>>

----------------------------------------------------------------------------
(* TrustEngine.  Scores are in thousandths (1.0 is 1000) and every division *)
(* truncates; rel.strength is read on the scale of the table (0..100), as   *)
(* the code reads it.  The Laplace sample of _add_differential_privacy is   *)
(* an input of the call.                                                    *)

\* samples of np.random.laplace(0, 0.1), thousandths
Noises == {-2000, -50, 50, 2000}

\* indices of the rows with the entity at either end
RowsOf(rows, entity_id) ==
  {i \in 1..Len(rows) : rows[i].entity_a_id = entity_id \/ rows[i].entity_b_id = entity_id}

SumOver(S, f(_)) == SeqSum([k \in 1..Cardinality(S) |->
                              f(CHOOSE i \in S : Cardinality({j \in S : j < i}) = k - 1)])

\* TrustEngine._calculate_reputation
CalculateReputation(rows, entity_id) ==
  LET S == RowsOf(rows, entity_id)
      n == Cardinality(S)
      Strength(i) == rows[i].strength
      Verifiers(i) == rows[i].verifier_count
  IN IF n = 0 THEN 500
     ELSE LET avg_strength == (SumOver(S, Strength) * 1000) \div n
              verifier_boost == Min(200, (SumOver(S, Verifiers) * 1000) \div (n * 50))
          IN Min(1000, avg_strength + verifier_boost)

\* TrustEngine._calculate_reciprocity: avg(strength), 0.5 when it is None or 0
CalculateReciprocity(rows, entity_id) ==
  LET S == RowsOf(rows, entity_id)
      Strength(i) == rows[i].strength
  IN IF S = {} \/ SumOver(S, Strength) = 0 THEN 500
     ELSE (SumOver(S, Strength) * 1000) \div Cardinality(S)

\* TrustEngine._calculate_consistency
CalculateConsistency(rows, entity_id) ==
  LET S == RowsOf(rows, entity_id)
      recent == {i \in S : rows[i].days <= 30}
  IN IF S = {} THEN 500
     ELSE Min(1000, (Cardinality(recent) * 1500) \div Cardinality(S))

\* TrustEngine._calculate_verification_ratio
CalculateVerificationRatio(rows, entity_id) ==
  LET S == RowsOf(rows, entity_id)
      verified == {i \in S : rows[i].consensus_score >= 700}
  IN IF S = {} THEN 0
     ELSE (Cardinality(verified) * 1000) \div Cardinality(S)

\* TrustEngine._calculate_direct_metrics, the composite
CalculateDirectMetrics(rows, entity_id) ==
  (350 * CalculateReputation(rows, entity_id)
   + 250 * CalculateReciprocity(rows, entity_id)
   + 250 * CalculateConsistency(rows, entity_id)
   + 150 * CalculateVerificationRatio(rows, entity_id)) \div 1000

\* the other end of row i seen from current_id
NeighborOf(rows, i, current_id) ==
  IF rows[i].entity_a_id = current_id THEN rows[i].entity_b_id ELSE rows[i].entity_a_id

\* TrustEngine._build_trust_network, the entry network[entity_id]: the rows
\* of strength >= 30 at the entity, the last row winning for a neighbour
BuildTrustNetwork(rows, entity_id) ==
  LET S == {i \in RowsOf(rows, entity_id) : rows[i].strength >= 30}
  IN {i \in S : \A j \in S :
        NeighborOf(rows, j, entity_id) = NeighborOf(rows, i, entity_id) => j <= i}

\* trust_score of one edge of the network
EdgeTrustScore(rel) ==
  Min(1000, ApplyTemporalDecay(rel.strength, rel.days) \div 100
            + Min(200, (rel.verifier_count * 1000) \div 50))

\* TrustEngine._calculate_network_trust
RECURSIVE CalculateNetworkTrust(_, _, _)
CalculateNetworkTrust(rows, entity_id, max_depth) ==
  IF max_depth <= 0 THEN 0
  ELSE LET network == BuildTrustNetwork(rows, entity_id)
           Propagated(i) ==
             IF max_depth > 1
             THEN (EdgeTrustScore(rows[i])
                   * (700 + (300 * CalculateNetworkTrust(rows, NeighborOf(rows, i, entity_id),
                                                         max_depth - 1)) \div 1000)) \div 1000
             ELSE EdgeTrustScore(rows[i])
           Weighted(i) == Propagated(i) * rows[i].consensus_score
           Weight(i) == rows[i].consensus_score
           total_trust == SumOver(network, Weighted)
           total_weight == SumOver(network, Weight)
       IN IF total_weight > 0 THEN total_trust \div total_weight ELSE 0

\* The chains of nested _calculate_network_trust calls made by
\* _calculate_network_trust(entity_id, max_depth): a call recurses into each
\* neighbour of network[entity_id] when max_depth > 1
RECURSIVE PropagationChains(_, _, _)
PropagationChains(rows, entity_id, max_depth) ==
  {<<entity_id>>} \cup
  (IF max_depth > 1
   THEN UNION {{<<entity_id>> \o c :
                  c \in PropagationChains(rows, NeighborOf(rows, i, entity_id), max_depth - 1)} :
               i \in BuildTrustNetwork(rows, entity_id)}
   ELSE {})

\* TrustEngine._add_differential_privacy
AddDifferentialPrivacy(score, noise) == Max(0, Min(1000, score + noise))

\* the score returned as computed
ClampUnitOmitted(x) == x

\* min(1.0, max(0.0, trust_score))
ClampUnit(x) == Min(1000, Max(0, x))

\* the score before the privacy step
CombinedTrustScore(rows, entity_id, max_depth) ==
  (700 * CalculateDirectMetrics(rows, entity_id)
   + 300 * CalculateNetworkTrust(rows, entity_id, max_depth)) \div 1000

\* TrustEngine.calculate_trust_score
CalculateTrustScore(rows, entity_id, max_depth, privacy, noise) ==
  LET trust_score == CombinedTrustScore(rows, entity_id, max_depth)
  IN ClampUnit(IF privacy THEN AddDifferentialPrivacy(trust_score, noise) ELSE trust_score)

NoTrustScore == [entity_id |-> 0, max_depth |-> 0, noise |-> 0, result |-> 0, caller |-> "none"]
NoMetrics == -1

InitTrustIdle ==
  /\ enable_privacy = TRUE
  /\ trustScore = NoTrustScore
  /\ trustMetrics = [e \in Entities |-> NoMetrics]

\* the engine is built with privacy on (the default) or off, over a
\* snapshot of the table or over the empty table
InitTrust ==
  /\ rels \in Snapshots \cup {<<>>}
  /\ params = [max_hops |-> 1, min_strength |-> 0, relationship_types |-> <<>>,
               exclude |-> {}, algorithm |-> "bfs", queried |-> {1}]
  /\ cache = EmptyCache
  /\ lastCall = NoCall
  /\ lastResult = [kind |-> "NoCall"]
  /\ deletedRels = {}
  /\ enable_privacy \in BOOLEAN
  /\ trustScore = NoTrustScore
  /\ trustMetrics = [e \in Entities |-> NoMetrics]

\* calculate_trust_score(entity_id, max_depth) called by an external consumer
CallCalculateTrustScore(entity_id, max_depth, noise) ==
  /\ trustScore' = [entity_id |-> entity_id, max_depth |-> max_depth, noise |-> noise,
                    result |-> CalculateTrustScore(rels, entity_id, max_depth,
                                                   enable_privacy, noise),
                    caller |-> "consumer"]
  /\ UNCHANGED <<trustMetrics, enable_privacy>>
  /\ UNCHANGED <<pathVars, convVars, decayVars, storeVars, pipeVars, memVars, svcVars>>

\* TrustEngine.update_trust_metrics(entity_id): calculate_trust_score with
\* the default max_depth 3, then the row is updated or created
UpdateTrustMetrics(entity_id, noise) ==
  LET trust_score == CalculateTrustScore(rels, entity_id, 3, enable_privacy, noise)
  IN /\ trustScore' = [entity_id |-> entity_id, max_depth |-> 3, noise |-> noise,
                       result |-> trust_score, caller |-> "update_trust_metrics"]
     /\ trustMetrics' = [trustMetrics EXCEPT ![entity_id] = trust_score]
     /\ UNCHANGED enable_privacy
     /\ UNCHANGED <<pathVars, convVars, decayVars, storeVars, pipeVars, memVars, svcVars>>

----------------------------------------------------------------------------
(* Attestation ingestion: the internal create-attestation endpoint          *)
(* (api/conviction.py) and AttestationEventProcessor.  Both commit the      *)
(* attestation row first and then recompute the conviction of the target   *)
(* in a second transaction: SELECT the target's attestations, compute,      *)
(* upsert conviction_scores.  Requests of different workers interleave      *)
(* between these statements.  One target is modelled.                       *)

UriOrder == <<"u1", "u2">>
Uris == SeqToSet(UriOrder)
IngestTypes == {"verify", "dispute"}
IngestConfidences == {10, 100}
Routes == {"api", "event"}
Ingestions == 1..MaxIngestions

NoRow == [stored |-> FALSE]
Idle == [pc |-> "idle"]

AttestationPayloads ==
  [uri : Uris, attestation_type : IngestTypes, confidence : IngestConfidences]

\* INSERT INTO attestations ... ON CONFLICT (uri) DO UPDATE SET
\* attestation_type, confidence, evidence, indexed_at
InsertOnConflictUpdate(table, payload) ==
  [table EXCEPT ![payload.uri] =
     [stored |-> TRUE, attestation_type |-> payload.attestation_type,
      confidence |-> payload.confidence]]

\* SELECT ... FROM attestations WHERE target_uri = :target_uri, as the list
\* of Attestation objects handed to calculate_conviction (attesters without
\* an entity row, created now)
RECURSIVE SelectAttestations(_, _)
SelectAttestations(table, i) ==
  IF i > Len(UriOrder) THEN <<>>
  ELSE (IF table[UriOrder[i]] = NoRow THEN <<>>
        ELSE <<[attestation_type |-> table[UriOrder[i]].attestation_type,
                confidence |-> table[UriOrder[i]].confidence,
                reputation |-> NoEntity, age_days |-> 0]>>)
       \o SelectAttestations(table, i + 1)

InitStoreIdle ==
  /\ attTable = [u \in Uris |-> NoRow]
  /\ scoreRow = NoRow
  /\ ingest = [p \in Ingestions |-> Idle]
  /\ scoreReply = [kind |-> "none"]

\* first statement of both routes: the attestation row is written and
\* committed (api/conviction.py:261-288, processors/attestation.py:53-71)
InsertAttestation(p, payload, route) ==
  /\ ingest[p] = Idle
  /\ attTable' = InsertOnConflictUpdate(attTable, payload)
  /\ ingest' = [ingest EXCEPT ![p] = [pc |-> "inserted", route |-> route]]
  /\ UNCHANGED <<scoreRow, scoreReply>>
  /\ UNCHANGED <<pathVars, convVars, decayVars, trustVars, pipeVars, memVars, svcVars>>

\* the recomputation reads the attestations of the target
SelectForRecalculation(p) ==
  /\ ingest[p].pc = "inserted"
  /\ ingest' = [ingest EXCEPT ![p] = [pc |-> "selected", route |-> ingest[p].route,
                                      rows |-> SelectAttestations(attTable, 1)]]
  /\ UNCHANGED <<attTable, scoreRow, scoreReply>>
  /\ UNCHANGED <<pathVars, convVars, decayVars, trustVars, pipeVars, memVars, svcVars>>

\* create_attestation: conviction is computed over the rows read and
\* upserted into conviction_scores, then committed
UpsertConvictionScore(p) ==
  /\ ingest[p].pc = "selected"
  /\ ingest[p].route = "api"
  /\ scoreRow' = CalculateConviction(ingest[p].rows)
  /\ ingest' = [ingest EXCEPT ![p] = [pc |-> "done", route |-> "api"]]
  /\ UNCHANGED <<attTable, scoreReply>>
  /\ UNCHANGED <<pathVars, convVars, decayVars, trustVars, pipeVars, memVars, svcVars>>

\* AttestationEventProcessor._recalculate_conviction: the parameters of the
\* upsert name datetime.utcnow(), and the module does not import datetime;
\* the NameError leaves the handler before the upsert is executed (the
\* attestation row is already committed)
RecalculateConvictionRaises(p) ==
  /\ ingest[p].pc = "selected"
  /\ ingest[p].route = "event"
  /\ ingest' = [ingest EXCEPT ![p] = [pc |-> "failed", route |-> "event"]]
  /\ UNCHANGED <<attTable, scoreRow, scoreReply>>
  /\ UNCHANGED <<pathVars, convVars, decayVars, trustVars, pipeVars, memVars, svcVars>>

\* what get_conviction_score answers and leaves in conviction_scores: the
\* cached row if there is one, else 404 without attestations, else the
\* score computed fresh and cached
GetConvictionScore(row, table) ==
  IF row # NoRow THEN [reply |-> [kind |-> "score", conviction |-> row], row |-> row]
  ELSE IF SelectAttestations(table, 1) = <<>>
       THEN [reply |-> [kind |-> "404"], row |-> row]
       ELSE LET c == CalculateConviction(SelectAttestations(table, 1))
            IN [reply |-> [kind |-> "score", conviction |-> c], row |-> c]

\* GET getScore for the target
GetScore ==
  /\ scoreReply' = GetConvictionScore(scoreRow, attTable).reply
  /\ scoreRow' = GetConvictionScore(scoreRow, attTable).row
  /\ UNCHANGED <<attTable, ingest>>
  /\ UNCHANGED <<pathVars, convVars, decayVars, trustVars, pipeVars, memVars, svcVars>>

----------------------------------------------------------------------------
(* Event pipeline (infrastructure/events/pipeline.py, types.py)            *)
(* backpressure_threshold is a float fraction; the model holds it in       *)
(* hundredths, and total >= max_queue_size * threshold is compared as      *)
(* 100 * total >= max_queue_size * hundredths.                             *)

\* EventPriority
LOW == 0
NORMAL == 1
HIGH == 2
CRITICAL == 3
EventPriority == {LOW, NORMAL, HIGH, CRITICAL}

\* constructor arguments the model draws from
QueueSizes == 1..MaxQueueSize
Thresholds == {50, 80, 100}

\* what the processor registered for an event's type does with the event
\* on every attempt (MockProcessor of the tests: succeeds or raises), or
\* that no registered processor can_process the type
EventTypes == {"succeeds", "raises", "returns_false", "unhandled"}
EventIds == 1..MaxEvents
WorkerCounts == {1, 2}
MaxWorkers == 2

\* a ProtocolEvent as the pipeline sees it
ProtocolEvent(event_id, event_type, priority) ==
  [event_id |-> event_id, event_type |-> event_type,
   priority |-> priority, retry_count |-> 0]

\* asyncio.Queue(maxsize = max_queue_size // 4) of each priority
QueueMaxsize(config) == config.max_queue_size \div 4

\* asyncio.Queue.full(): a maxsize of 0 or less means no limit
QueueFull(queue, maxsize) == maxsize > 0 /\ Len(queue) >= maxsize

\* sum(q.qsize() for q in self._queues.values())
TotalEvents(qs) ==
  Len(qs[LOW]) + Len(qs[NORMAL]) + Len(qs[HIGH]) + Len(qs[CRITICAL])

\* total_events >= self._max_queue_size * self._backpressure_threshold
BackpressureReached(total_events, config) ==
  100 * total_events >= config.max_queue_size * config.backpressure_threshold

NoEnqueue == [called |-> FALSE]
NoWorker == [pc |-> "none"]

\* a worker at the top of its loop: _get_next_event scans from CRITICAL down
WorkerLoop == [pc |-> "scan", from |-> CRITICAL]

\* EventPipeline(max_queue_size, num_workers, backpressure_threshold),
\* PipelineMetrics()
NewPipeline(max_queue_size, num_workers, backpressure_threshold) ==
  /\ pipeConfig = [max_queue_size |-> max_queue_size,
                   num_workers |-> num_workers,
                   backpressure_threshold |-> backpressure_threshold]
  /\ queues = [priority \in EventPriority |-> <<>>]
  /\ metrics = [backpressure_active |-> FALSE, events_in_queue |-> 0,
                events_processed |-> 0, events_failed |-> 0]
  /\ lastEnqueue = NoEnqueue
  /\ running = FALSE
  /\ workers = [w \in 1..MaxWorkers |-> NoWorker]
  /\ dead_letter = <<>>
  /\ processed_events = <<>>
  /\ accepted = {}

\* the pipeline of test_backpressure, left alone
InitPipeIdle == NewPipeline(10, 1, 80)

InitPipe ==
  \E max_queue_size \in QueueSizes, backpressure_threshold \in Thresholds :
    NewPipeline(max_queue_size, 1, backpressure_threshold)

\* what EventPipeline.enqueue(event) returns and leaves behind: rejected at
\* the backpressure threshold, rejected when the queue of the event's
\* priority is full (QueueFull from put_nowait), accepted otherwise
EnqueueResult(event, qs, m, config) ==
  IF BackpressureReached(TotalEvents(qs), config)
     \/ QueueFull(qs[event.priority], QueueMaxsize(config))
  THEN [result |-> FALSE, queues |-> qs,
        metrics |-> [m EXCEPT !.backpressure_active = TRUE]]
  ELSE [result |-> TRUE,
        queues |-> [qs EXCEPT ![event.priority] = Append(@, event)],
        metrics |-> [m EXCEPT !.backpressure_active = FALSE,
                              !.events_in_queue = @ + 1]]

\* a caller's EventPipeline.enqueue(event)
Enqueue(event) ==
  LET r == EnqueueResult(event, queues, metrics, pipeConfig)
  IN /\ queues' = r.queues
     /\ metrics' = r.metrics
     /\ lastEnqueue' = [called |-> TRUE, priority |-> event.priority,
                        total_events |-> TotalEvents(queues),
                        result |-> r.result]
     /\ accepted' = IF r.result THEN accepted \cup {event} ELSE accepted
     /\ UNCHANGED <<pipeConfig, running, workers, dead_letter, processed_events>>
     /\ UNCHANGED <<pathVars, convVars, decayVars, trustVars, storeVars, memVars, svcVars>>

\* pipelines the worker specification starts: the queue sizes of the tests
\* (100), one whose priority queues hold a single event (4 // 4) and one
\* whose priority queues are unbounded (2 // 4 = 0)
StartedQueueSizes == {2, 4, 100}

InitWorkers ==
  \E max_queue_size \in StartedQueueSizes, num_workers \in WorkerCounts :
    NewPipeline(max_queue_size, num_workers, 80)

\* EventPipeline.start(): the worker tasks are created
Start ==
  /\ ~running
  /\ running' = TRUE
  /\ workers' = [w \in 1..MaxWorkers |->
                   IF w <= pipeConfig.num_workers THEN WorkerLoop ELSE NoWorker]
  /\ UNCHANGED <<pipeConfig, queues, metrics, lastEnqueue, dead_letter,
                 processed_events, accepted>>
  /\ UNCHANGED <<pathVars, convVars, decayVars, trustVars, storeVars, memVars, svcVars>>

\* priorities at or below from whose queue is not empty
NonEmptyFrom(qs, from) == {p \in EventPriority : p <= from /\ qs[p] # <<>>}

\* _get_next_event: the first non-empty queue in priority order
HighestNonEmpty(qs, from) ==
  CHOOSE p \in NonEmptyFrom(qs, from) : \A q \in NonEmptyFrom(qs, from) : q <= p

\* _get_next_event up to its await: the worker finds the first non-empty
\* queue and waits in asyncio.wait_for(queue.get(), 0.1), which runs the get
\* as a task of its own; with every queue left empty it returns None and
\* the worker sleeps and loops
GetNextEvent(w) ==
  /\ running
  /\ workers[w].pc = "scan"
  /\ IF NonEmptyFrom(queues, workers[w].from) # {}
     THEN workers' = [workers EXCEPT ![w] =
            [pc |-> "getting",
             priority |-> HighestNonEmpty(queues, workers[w].from)]]
     ELSE /\ workers[w] # WorkerLoop
          /\ workers' = [workers EXCEPT ![w] = WorkerLoop]
  /\ UNCHANGED <<pipeConfig, queues, metrics, lastEnqueue, running,
                 dead_letter, processed_events, accepted>>
  /\ UNCHANGED <<pathVars, convVars, decayVars, trustVars, storeVars, memVars, svcVars>>

\* the queue.get() task of a waiting worker takes the oldest event
QueueGet(w) ==
  /\ workers[w].pc = "getting"
  /\ queues[workers[w].priority] # <<>>
  /\ queues' = [queues EXCEPT ![workers[w].priority] = Tail(@)]
  /\ workers' = [workers EXCEPT ![w] =
       [pc |-> "got", event |-> Head(queues[workers[w].priority])]]
  /\ UNCHANGED <<pipeConfig, metrics, lastEnqueue, running, dead_letter,
                 processed_events, accepted>>
  /\ UNCHANGED <<pathVars, convVars, decayVars, trustVars, storeVars, memVars, svcVars>>

\* another worker emptied the queue first: the get times out and the scan
\* continues with the lower priorities
QueueGetTimeout(w) ==
  /\ workers[w].pc = "getting"
  /\ queues[workers[w].priority] = <<>>
  /\ workers' = [workers EXCEPT ![w] =
       IF workers[w].priority = LOW THEN WorkerLoop
       ELSE [pc |-> "scan", from |-> workers[w].priority - 1]]
  /\ UNCHANGED <<pipeConfig, queues, metrics, lastEnqueue, running,
                 dead_letter, processed_events, accepted>>
  /\ UNCHANGED <<pathVars, convVars, decayVars, trustVars, storeVars, memVars, svcVars>>

\* _worker after _process_event returned: the counters, and the dead letter
\* queue for a failed event whose retry_count reached 3
WorkerAccounts(m, success) ==
  IF success
  THEN [m EXCEPT !.events_in_queue = @ - 1, !.events_processed = @ + 1]
  ELSE [m EXCEPT !.events_in_queue = @ - 1, !.events_failed = @ + 1]

DeadLetterAfter(dl, event) ==
  IF event.retry_count >= 3 THEN Append(dl, event) ELSE dl

\* _process_event(event) up to its first await that matters: the processor
\* is called; success, a False return and an event no processor handles end
\* the attempt; an exception with retries left bumps retry_count and sleeps
\* the backoff
ProcessEvent(w) ==
  LET event == workers[w].event
      handled == event.event_type # "unhandled"
      retried == event.event_type = "raises" /\ event.retry_count < 3
  IN /\ workers[w].pc = "got"
     /\ processed_events' =
          IF handled THEN Append(processed_events, event) ELSE processed_events
     /\ IF retried
        THEN /\ workers' = [workers EXCEPT ![w] =
                  [pc |-> "backoff",
                   event |-> [event EXCEPT !.retry_count = @ + 1]]]
             /\ UNCHANGED <<metrics, dead_letter>>
        ELSE /\ workers' = [workers EXCEPT ![w] = WorkerLoop]
             /\ metrics' = WorkerAccounts(metrics, event.event_type = "succeeds")
             /\ dead_letter' = IF event.event_type = "succeeds" THEN dead_letter
                               ELSE DeadLetterAfter(dead_letter, event)
     /\ UNCHANGED <<pipeConfig, queues, lastEnqueue, running, accepted>>
     /\ UNCHANGED <<pathVars, convVars, decayVars, trustVars, storeVars, memVars, svcVars>>

\* after the backoff: await self.enqueue(event), its result unused, then
\* return False to _worker
RetryEnqueue(w) ==
  LET event == workers[w].event
      r == EnqueueResult(event, queues, metrics, pipeConfig)
  IN /\ workers[w].pc = "backoff"
     /\ queues' = r.queues
     /\ metrics' = WorkerAccounts(r.metrics, FALSE)
     /\ lastEnqueue' = [called |-> TRUE, priority |-> event.priority,
                        total_events |-> TotalEvents(queues),
                        result |-> r.result]
     /\ dead_letter' = DeadLetterAfter(dead_letter, event)
     /\ workers' = [workers EXCEPT ![w] = WorkerLoop]
     /\ UNCHANGED <<pipeConfig, running, processed_events, accepted>>
     /\ UNCHANGED <<pathVars, convVars, decayVars, trustVars, storeVars, memVars, svcVars>>

\* a caller submits a new event (event ids in order of acceptance)
Submit ==
  \E event_type \in EventTypes, priority \in EventPriority :
    /\ Cardinality(accepted) < MaxEvents
    /\ Enqueue(ProtocolEvent(Cardinality(accepted) + 1, event_type, priority))

WorkerStep(w) ==
  \/ GetNextEvent(w)
  \/ QueueGet(w)
  \/ QueueGetTimeout(w)
  \/ ProcessEvent(w)
  \/ RetryEnqueue(w)

----------------------------------------------------------------------------
(* In-memory cache backend (infrastructure/cache/memory.py)                *)
(* _cache is a dict: iteration is in insertion order, an overwritten key   *)
(* keeps its place, a deleted and re-set key goes to the end.  An entry's  *)
(* expiry is "none" (no ttl), "live" (ttl not yet over) or "expired".      *)

CacheKeys == {"trust:alice", "trust:bob", "graph:path"}
CacheValues == {"v1", "v2"}
Patterns == {"trust:*", "graph:*", "*"}
Ttls == {"none", "live"}
NoValue == "None"

\* fnmatch.fnmatch(key, pattern) on the keys and patterns above
FnMatch(key, pattern) ==
  CASE pattern = "*" -> TRUE
    [] pattern = "trust:*" -> key \in {"trust:alice", "trust:bob"}
    [] pattern = "graph:*" -> key \in {"graph:path"}
    [] OTHER -> key = pattern

\* key in self._cache
HasKey(c, key) == \E k \in 1..Len(c) : c[k].key = key

IndexOf(c, key) == CHOOSE k \in 1..Len(c) : c[k].key = key

\* del self._cache[key]
Without(c, key) == SelectSeq(c, LAMBDA e : e.key # key)

\* MemoryCacheBackend.get: the value of a key that is present and not
\* expired; an expired entry is deleted
MemoryGet(c, key) ==
  IF ~HasKey(c, key) THEN [cache |-> c, result |-> NoValue]
  ELSE IF c[IndexOf(c, key)].expiry # "expired"
       THEN [cache |-> c, result |-> c[IndexOf(c, key)].value]
       ELSE [cache |-> Without(c, key), result |-> NoValue]

\* the FIFO eviction of MemoryCacheBackend.set
EvictNothing(c, max_size, key) == c
EvictOldest(c, max_size, key) ==
  IF Len(c) >= max_size /\ ~HasKey(c, key) THEN Tail(c) ELSE c

\* self._cache[key] = (value, expiry)
Store(c, key, value, ttl) ==
  IF HasKey(c, key)
  THEN [c EXCEPT ![IndexOf(c, key)] = [key |-> key, value |-> value, expiry |-> ttl]]
  ELSE Append(c, [key |-> key, value |-> value, expiry |-> ttl])

\* MemoryCacheBackend.set
MemorySet(c, max_size, key, value, ttl) ==
  [cache |-> Store(EvictOldest(c, max_size, key), key, value, ttl), result |-> TRUE]

\* MemoryCacheBackend.delete
MemoryDelete(c, key) == [cache |-> Without(c, key), result |-> HasKey(c, key)]

\* MemoryCacheBackend.clear_pattern
MemoryClearPattern(c, pattern) ==
  [cache |-> SelectSeq(c, LAMBDA e : ~FnMatch(e.key, pattern)),
   result |-> Len(SelectSeq(c, LAMBDA e : FnMatch(e.key, pattern)))]

NoCacheCall == [op |-> "none"]

\* MemoryCacheBackend(max_size)
NewMemoryCache(max_size) ==
  /\ memCache = <<>>
  /\ memMaxSize = max_size
  /\ memLast = NoCacheCall

InitMemIdle == NewMemoryCache(1)

InitMem == \E max_size \in 1..MaxCacheSize : NewMemoryCache(max_size)

MemSet(key, value, ttl) ==
  /\ memCache' = MemorySet(memCache, memMaxSize, key, value, ttl).cache
  /\ memLast' = [op |-> "set", key |-> key, value |-> value, before |-> memCache]
  /\ UNCHANGED memMaxSize
  /\ UNCHANGED <<pathVars, convVars, decayVars, trustVars, storeVars, pipeVars, svcVars>>

MemGet(key) ==
  /\ memCache' = MemoryGet(memCache, key).cache
  /\ memLast' = [op |-> "get", key |-> key, before |-> memCache,
                 result |-> MemoryGet(memCache, key).result]
  /\ UNCHANGED memMaxSize
  /\ UNCHANGED <<pathVars, convVars, decayVars, trustVars, storeVars, pipeVars, svcVars>>

MemDelete(key) ==
  /\ memCache' = MemoryDelete(memCache, key).cache
  /\ memLast' = [op |-> "delete", key |-> key, before |-> memCache,
                 result |-> MemoryDelete(memCache, key).result]
  /\ UNCHANGED memMaxSize
  /\ UNCHANGED <<pathVars, convVars, decayVars, trustVars, storeVars, pipeVars, svcVars>>

MemClearPattern(pattern) ==
  /\ memCache' = MemoryClearPattern(memCache, pattern).cache
  /\ memLast' = [op |-> "clear_pattern", pattern |-> pattern, before |-> memCache,
                 result |-> MemoryClearPattern(memCache, pattern).result]
  /\ UNCHANGED memMaxSize
  /\ UNCHANGED <<pathVars, convVars, decayVars, trustVars, storeVars, pipeVars, svcVars>>

\* time passes: the ttl of an entry runs out
MemExpire(k) ==
  /\ k \in 1..Len(memCache)
  /\ memCache[k].expiry = "live"
  /\ memCache' = [memCache EXCEPT ![k].expiry = "expired"]
  /\ UNCHANGED <<memMaxSize, memLast>>
  /\ UNCHANGED <<pathVars, convVars, decayVars, trustVars, storeVars, pipeVars, svcVars>>

----------------------------------------------------------------------------
(* Cache service over Redis with a memory fallback                         *)
(* (infrastructure/cache/service.py, infrastructure/cache/redis.py).       *)
(* Redis.from_url does not connect, so the constructor keeps the Redis     *)
(* backend whether or not the server answers; every later command to a     *)
(* server that does not answer raises inside RedisCacheBackend.            *)

\* MemoryCacheBackend() of the fallback
DEFAULT_MAX_SIZE == 10000

\* json.dumps / json.loads of a string value
JsonDumps(value) == CASE value = "v1" -> "\"v1\"" [] value = "v2" -> "\"v2\""
JsonLoads(serialized) == CASE serialized = "\"v1\"" -> "v1" [] serialized = "\"v2\"" -> "v2"

\* RedisCacheBackend.get: an error of the client is caught and answered None
RedisGet(store, reachable, key) ==
  IF ~reachable THEN NoValue
  ELSE IF store[key] = NoValue THEN NoValue ELSE JsonLoads(store[key])

\* RedisCacheBackend.set: an error of the client is caught and answered False
RedisSet(store, reachable, key, value) ==
  IF ~reachable THEN [store |-> store, result |-> FALSE]
  ELSE [store |-> [store EXCEPT ![key] = JsonDumps(value)], result |-> TRUE]

\* RedisCacheBackend.delete
RedisDelete(store, reachable, key) ==
  IF ~reachable THEN [store |-> store, result |-> FALSE]
  ELSE [store |-> [store EXCEPT ![key] = NoValue], result |-> store[key] # NoValue]

\* RedisCacheBackend.clear_pattern
RedisClearPattern(store, reachable, pattern) ==
  IF ~reachable THEN [store |-> store, result |-> 0]
  ELSE [store |-> [k \in CacheKeys |->
                     IF FnMatch(k, pattern) THEN NoValue ELSE store[k]],
        result |-> Cardinality({k \in CacheKeys :
                                  FnMatch(k, pattern) /\ store[k] # NoValue})]

\* CacheService(backend="redis", redis_url, fallback_to_memory)
NewCacheService(fallback_to_memory, redis_reachable) ==
  /\ svcConfig = [backend |-> "redis", fallback_to_memory |-> fallback_to_memory,
                  redis_reachable |-> redis_reachable]
  /\ svcRedis = [k \in CacheKeys |-> NoValue]
  /\ svcFallback = <<>>
  /\ svcWritten = [k \in CacheKeys |-> NoValue]
  /\ svcLast = NoCacheCall

InitSvcIdle == NewCacheService(TRUE, TRUE)

InitSvc ==
  \E fallback_to_memory \in BOOLEAN, redis_reachable \in BOOLEAN :
    NewCacheService(fallback_to_memory, redis_reachable)

\* whether self._backend.get(key) raises into CacheService.get:
\* RedisCacheBackend.get catches every exception itself
BackendGetRaises(reachable) == FALSE

\* CacheService.get: the fallback is read only when the backend raises

SvcGet(key) ==
  LET raised == BackendGetRaises(svcConfig.redis_reachable)
      result == IF ~raised THEN RedisGet(svcRedis, svcConfig.redis_reachable, key)
                ELSE IF svcConfig.fallback_to_memory
                     THEN MemoryGet(svcFallback, key).result
                     ELSE NoValue
  IN /\ svcLast' = [op |-> "get", key |-> key, result |-> result]
     /\ svcFallback' = IF raised /\ svcConfig.fallback_to_memory
                       THEN MemoryGet(svcFallback, key).cache ELSE svcFallback
     /\ UNCHANGED <<svcConfig, svcRedis, svcWritten>>
     /\ UNCHANGED <<pathVars, convVars, decayVars, trustVars, storeVars, pipeVars, memVars>>

\* CacheService.set(key, value): the fallback is written when the backend
\* reported success
SvcSet(key, value) ==
  LET r == RedisSet(svcRedis, svcConfig.redis_reachable, key, value)
  IN /\ svcRedis' = r.store
     /\ svcFallback' =
          IF r.result /\ svcConfig.fallback_to_memory
          THEN MemorySet(svcFallback, DEFAULT_MAX_SIZE, key, value, "none").cache
          ELSE svcFallback
     /\ svcWritten' = [svcWritten EXCEPT ![key] = value]
     /\ svcLast' = [op |-> "set", key |-> key, result |-> r.result]
     /\ UNCHANGED svcConfig
     /\ UNCHANGED <<pathVars, convVars, decayVars, trustVars, storeVars, pipeVars, memVars>>

\* CacheService.delete
SvcDelete(key) ==
  LET r == RedisDelete(svcRedis, svcConfig.redis_reachable, key)
  IN /\ svcRedis' = r.store
     /\ svcFallback' = IF svcConfig.fallback_to_memory
                       THEN MemoryDelete(svcFallback, key).cache ELSE svcFallback
     /\ svcWritten' = [svcWritten EXCEPT ![key] = NoValue]
     /\ svcLast' = [op |-> "delete", key |-> key, result |-> r.result]
     /\ UNCHANGED svcConfig
     /\ UNCHANGED <<pathVars, convVars, decayVars, trustVars, storeVars, pipeVars, memVars>>

\* CacheService.clear_pattern
SvcClearPattern(pattern) ==
  LET r == RedisClearPattern(svcRedis, svcConfig.redis_reachable, pattern)
  IN /\ svcRedis' = r.store
     /\ svcFallback' = IF svcConfig.fallback_to_memory
                       THEN MemoryClearPattern(svcFallback, pattern).cache
                       ELSE svcFallback
     /\ svcWritten' = [k \in CacheKeys |->
                         IF FnMatch(k, pattern) THEN NoValue ELSE svcWritten[k]]
     /\ svcLast' = [op |-> "clear_pattern", pattern |-> pattern, result |-> r.result]
     /\ UNCHANGED svcConfig
     /\ UNCHANGED <<pathVars, convVars, decayVars, trustVars, storeVars, pipeVars, memVars>>

----------------------------------------------------------------------------
(* Specifications *)

Init == InitPath /\ InitConviction /\ InitDecayIdle /\ InitTrustIdle /\ InitStoreIdle /\ InitPipeIdle /\ InitMemIdle /\ InitSvcIdle

Next ==
  \E f \in params.queried, t \in params.queried,
     x \in Orderings(params.exclude), fault \in Faults :
    /\ CallFindPath(f, t, x, fault)
    /\ UNCHANGED <<convVars, decayVars, trustVars, storeVars, pipeVars, memVars, svcVars>>

Spec == Init /\ [][Next]_vars

\* path queries while relationship-deleted events are processed
InitGraphChange ==
  /\ rels = SelectRows(1..Len(Catalog), 1)
  /\ params \in {[max_hops |-> h, min_strength |-> 0, relationship_types |-> <<>>,
                  exclude |-> {}, algorithm |-> a, queried |-> q] :
                 h \in 1..MaxHopsInput, a \in Algorithms, q \in EntityPairs}
  /\ cache = EmptyCache
  /\ lastCall = NoCall
  /\ lastResult = [kind |-> "NoCall"]
  /\ deletedRels = {}
  /\ InitConviction /\ InitDecayIdle /\ InitTrustIdle /\ InitStoreIdle
  /\ InitPipeIdle /\ InitMemIdle /\ InitSvcIdle

NextGraphChange ==
  \/ \E f \in params.queried, t \in params.queried :
       /\ CallFindPath(f, t, <<>>, "none")
       /\ UNCHANGED <<convVars, decayVars, trustVars, storeVars, pipeVars, memVars, svcVars>>
  \/ \E payload \in DeletedPayloads : HandleDeleted(payload)

SpecGraphChange == InitGraphChange /\ [][NextGraphChange]_vars

InitConv == InitPathIdle /\ InitConviction /\ InitDecayIdle /\ InitTrustIdle /\ InitStoreIdle /\ InitPipeIdle /\ InitMemIdle /\ InitSvcIdle

NextConv == \E a \in AttestationInputs : Attest(a) /\ UNCHANGED <<decayVars, trustVars, storeVars, pipeVars, memVars, svcVars>>

SpecConv == InitConv /\ [][NextConv]_vars

NextLookup ==
  \E a \in AttestationInputs, lookup_fails \in BOOLEAN :
    AttestWithLookup(a, lookup_fails) /\ UNCHANGED <<decayVars, trustVars, storeVars, pipeVars, memVars, svcVars>>

SpecLookup == InitConv /\ [][NextLookup]_vars

InitDecay == InitPathIdle /\ InitConviction /\ InitDecayIdle /\ InitTrustIdle /\ InitStoreIdle /\ InitPipeIdle /\ InitMemIdle /\ InitSvcIdle

NextDecay ==
  \/ \E a \in AttestationInputs, newer_age \in AgeDays, older_age \in AgeDays :
       DecayAttestation(a, newer_age, older_age)
  \/ \E strength \in EdgeStrengths, newer_age \in EdgeAges, older_age \in EdgeAges :
       DecayEdge(strength, newer_age, older_age)
  \/ \E strength \in EdgeStrengths : DecayEdgeNoInteraction(strength)

SpecDecay == InitDecay /\ [][NextDecay]_vars

InitTrustEngine == InitTrust /\ InitConviction /\ InitDecayIdle /\ InitStoreIdle /\ InitPipeIdle /\ InitMemIdle /\ InitSvcIdle

NextTrust ==
  \/ \E entity_id \in Entities, max_depth \in 0..MaxDepthInput, noise \in Noises :
       CallCalculateTrustScore(entity_id, max_depth, noise)
  \/ \E entity_id \in Entities, noise \in Noises : UpdateTrustMetrics(entity_id, noise)

SpecTrust == InitTrustEngine /\ [][NextTrust]_vars

InitStore == InitPathIdle /\ InitConviction /\ InitDecayIdle /\ InitTrustIdle /\ InitStoreIdle /\ InitPipeIdle /\ InitMemIdle /\ InitSvcIdle

NextStore ==
  \/ \E p \in Ingestions, payload \in AttestationPayloads, route \in Routes :
       InsertAttestation(p, payload, route)
  \/ \E p \in Ingestions : SelectForRecalculation(p)
  \/ \E p \in Ingestions : UpsertConvictionScore(p)
  \/ \E p \in Ingestions : RecalculateConvictionRaises(p)
  \/ GetScore

SpecStore == InitStore /\ [][NextStore]_vars

InitPipeline ==
  InitPathIdle /\ InitConviction /\ InitDecayIdle /\ InitTrustIdle /\ InitStoreIdle /\ InitPipe /\ InitMemIdle /\ InitSvcIdle

NextPipe ==
  \E priority \in EventPriority : Enqueue(ProtocolEvent(1, "succeeds", priority))

SpecPipe == InitPipeline /\ [][NextPipe]_vars

InitStarted ==
  InitPathIdle /\ InitConviction /\ InitDecayIdle /\ InitTrustIdle /\ InitStoreIdle /\ InitWorkers /\ InitMemIdle /\ InitSvcIdle

NextWorkers ==
  \/ Submit
  \/ Start
  \/ \E w \in 1..MaxWorkers : WorkerStep(w)

SpecWorkers == InitStarted /\ [][NextWorkers]_vars

\* the event loop runs every task that is ready: the pipeline is started and
\* no worker waits forever at a step it can take
InitMemory ==
  InitPathIdle /\ InitConviction /\ InitDecayIdle /\ InitTrustIdle /\ InitStoreIdle
  /\ InitPipeIdle /\ InitMem /\ InitSvcIdle

NextMem ==
  \/ \E key \in CacheKeys, value \in CacheValues, ttl \in Ttls : MemSet(key, value, ttl)
  \/ \E key \in CacheKeys : MemGet(key)
  \/ \E key \in CacheKeys : MemDelete(key)
  \/ \E pattern \in Patterns : MemClearPattern(pattern)
  \/ \E k \in 1..MaxCacheSize : MemExpire(k)

SpecMem == InitMemory /\ [][NextMem]_vars

InitService ==
  InitPathIdle /\ InitConviction /\ InitDecayIdle /\ InitTrustIdle /\ InitStoreIdle
  /\ InitPipeIdle /\ InitMemIdle /\ InitSvc

NextSvc ==
  \/ \E key \in CacheKeys, value \in CacheValues : SvcSet(key, value)
  \/ \E key \in CacheKeys : SvcGet(key)
  \/ \E key \in CacheKeys : SvcDelete(key)
  \/ \E pattern \in Patterns : SvcClearPattern(pattern)

SpecSvc == InitService /\ [][NextSvc]_vars

SpecWorkersFair ==
  SpecWorkers /\ WF_vars(Start) /\ \A w \in 1..MaxWorkers : WF_vars(WorkerStep(w))

----------------------------------------------------------------------------
(* Reference notions the path properties are stated against *)

\* the run's exclusion set as a list
ExcludeList == CHOOSE x \in Orderings(params.exclude) : TRUE

\* the graph find_path searches in this run
CurrentGraph == BuildEnhancedGraph(rels, params.min_strength, params.relationship_types)

\* what find_path(f, t, ...) returns over the current table with an empty,
\* reachable cache
ColdFindPath(f, t) ==
  FindPath(rels, EmptyCache, f, t, QueryParams(ExcludeList), "none").result

CallMade == lastCall.source # "none"

\* entities on a returned path: the source and every hop's endpoints
PathEntities(response) ==
  {response.from_entity, response.to_entity}
    \cup {response.hops[i].from_entity : i \in 1..Len(response.hops)}
    \cup {response.hops[i].to_entity : i \in 1..Len(response.hops)}

\* entities reachable from f by at most k hops over entities outside the
\* exclusion set (f itself included in the test)
RECURSIVE ReachWithin(_, _)
ReachWithin(f, k) ==
  IF f \in params.exclude THEN {}
  ELSE IF k = 0 THEN {f}
  ELSE LET prev == ReachWithin(f, k - 1)
       IN prev \cup {n \in Entities \ params.exclude :
                       \E m \in prev : \E i \in 1..Len(CurrentGraph[m]) :
                         CurrentGraph[m][i].to = n}

QualifyingPathExists(f, t) == t \in ReachWithin(f, params.max_hops)

Infinity == 1000 * 1000

\* least cumulative edge cost of a path from f to n of at most k hops over
\* entities outside the exclusion set; Infinity when there is none
RECURSIVE LeastCost(_, _, _)
LeastCost(f, n, k) ==
  IF f \in params.exclude \/ n \in params.exclude THEN Infinity
  ELSE IF k = 0 THEN (IF n = f THEN 0 ELSE Infinity)
  ELSE LET via == {LeastCost(f, CurrentGraph[n][i].to, k - 1)
                     + CalculateEdgeCost(CurrentGraph[n][i]) : i \in 1..Len(CurrentGraph[n])}
           all == via \cup {LeastCost(f, n, k - 1)}
       IN Min(Infinity, CHOOSE c \in all : \A d \in all : c <= d)

RelById(id) == CHOOSE i \in 1..Len(rels) : rels[i].id = id

\* cumulative edge cost of the hops of a returned path
ResponseCost(response) ==
  SeqSum([i \in 1..Len(response.hops) |->
            CalculateEdgeCost(EdgeData(rels[RelById(response.hops[i].relationship_id)],
                                       response.hops[i].to_entity))])

----------------------------------------------------------------------------
(* Properties of find_path *)

NoExcludedEntityOnPath ==
  /\ lastResult.kind = "Path" => PathEntities(lastResult) \cap params.exclude = {}
  /\ (/\ CallMade
      /\ lastCall.raised = "none"
      /\ {lastCall.from_entity, lastCall.to_entity} \cap params.exclude # {})
       => lastResult = NotFound

\* C4: whenever from # to and the filtered graph holds a path of at most
\* max_hops hops that avoids the excluded entities, find_path returns a path
\* with each of the three algorithms (and NotFound is returned only when
\* from = to or there is no such path).
PathFoundWheneverOneQualifies ==
  (/\ CallMade
   /\ lastCall.raised = "none"
   /\ lastCall.from_entity # lastCall.to_entity
   /\ QualifyingPathExists(lastCall.from_entity, lastCall.to_entity))
    => lastResult.kind = "Path"

\* C5: with dijkstra no path of at most max_hops hops that avoids the
\* excluded entities has a strictly smaller cumulative edge cost than the
\* path the search returns.
DijkstraPathHasLeastCost ==
  (/\ params.algorithm = "dijkstra"
   /\ lastCall.source = "search"
   /\ lastResult.kind = "Path")
    => ResponseCost(lastResult)
         <= LeastCost(lastCall.from_entity, lastCall.to_entity, params.max_hops)

CacheFailureAbsorbed ==
  /\ lastResult.kind # "Error"
  /\ (CallMade /\ lastCall.raised # "none")
       => lastResult = ColdFindPath(lastCall.from_entity, lastCall.to_entity)

----------------------------------------------------------------------------
(* Properties of calculate_conviction *)

\* C9: the conviction score is an integer in [0, 100] for every attestation
\* list, and the empty list gives score 0, trend stable and all counts 0.
ConvictionScoreInRange ==
  /\ conviction.score \in 0..100
  /\ atts = <<>> =>
       /\ conviction.score = 0
       /\ conviction.trend = "stable"
       /\ conviction.attestation_count = 0
       /\ conviction.verify_count = 0
       /\ conviction.dispute_count = 0
       /\ conviction.strengthen_count = 0
       /\ conviction.weaken_count = 0

\* a non-empty list whose weighted sum lies below the range and is clamped to 0
ConvictionScoreInRangeWitness ==
  /\ atts # <<>>
  /\ conviction.score = 0
  /\ 50 * WeightPerPoint + SeqSum([i \in 1..Len(atts) |-> FinalWeight(atts[i])]) < 0

\* C10 as claimed: for every attestation list S, the empty one included,
\* and every dispute d, the score of S plus d is at most the score of S.
DisputeNeverIncreasesScore ==
  [][(/\ Len(atts') = Len(atts) + 1
      /\ atts'[Len(atts')].attestation_type = "dispute")
       => conviction'.score <= conviction.score]_vars

\* C10 amended: for every non-empty attestation list S and every dispute d,
\* the score of S plus d is at most the score of S.
DisputeNeverIncreasesNonEmptyScore ==
  [][(/\ atts # <<>>
      /\ Len(atts') = Len(atts) + 1
      /\ atts'[Len(atts')].attestation_type = "dispute")
       => conviction'.score <= conviction.score]_vars

\* a dispute was added to a non-empty list and lowered the score
DisputeNeverIncreasesWitness ==
  /\ Len(atts) >= 2
  /\ atts[Len(atts)].attestation_type = "dispute"
  /\ conviction.score < CalculateConviction(SubSeq(atts, 1, Len(atts) - 1)).score

\* C11: for every attestation list S, the empty one included, and every
\* verify v whose confidence is at least that of every attestation in S,
\* the score of S plus v is at least the score of S.
VerifyNeverDecreasesScore ==
  [][(/\ Len(atts') = Len(atts) + 1
      /\ atts'[Len(atts')].attestation_type = "verify"
      /\ \A i \in 1..Len(atts) : atts[i].confidence <= atts'[Len(atts')].confidence)
       => conviction'.score >= conviction.score]_vars

\* a verify of top confidence was added to a non-empty list holding a
\* dispute and raised the score
VerifyNeverDecreasesWitness ==
  /\ Len(atts) >= 2
  /\ atts[Len(atts)].attestation_type = "verify"
  /\ \A i \in 1..Len(atts) : atts[i].confidence <= atts[Len(atts)].confidence
  /\ \E i \in 1..(Len(atts) - 1) : atts[i].attestation_type = "dispute"
  /\ conviction.score > CalculateConviction(SubSeq(atts, 1, Len(atts) - 1)).score

\* every attestation of a non-empty list is a verify or a strengthen with
\* confidence above 0
NetPositiveEvidence ==
  /\ atts # <<>>
  /\ \A i \in 1..Len(atts) :
       /\ atts[i].attestation_type \in {"verify", "strengthen"}
       /\ atts[i].confidence > 0

\* weighted_sum of the recorded attestations, numerator over WeightDenominator
WeightedSum == SeqSum([i \in 1..Len(atts) |-> FinalWeight(atts[i])])

\* reputation the weight is computed from: 50 for an attester without a row
EffectiveReputation(a) == IF a.reputation = NoEntity THEN 50 ELSE a.reputation

\* exactly one verify v and one dispute d, of the same age, the dispute's
\* reputation and confidence at least the verify's and its confidence above 0
CredibleDisputeAgainstVerify(v, d) ==
  /\ v.attestation_type = "verify"
  /\ d.attestation_type = "dispute"
  /\ v.age_days = d.age_days
  /\ EffectiveReputation(d) >= EffectiveReputation(v)
  /\ d.confidence >= v.confidence
  /\ d.confidence > 0

OneVerifyOneCredibleDispute ==
  /\ Len(atts) = 2
  /\ \/ CredibleDisputeAgainstVerify(atts[1], atts[2])
     \/ CredibleDisputeAgainstVerify(atts[2], atts[1])

\* C12 as claimed: a non-empty list of verify and strengthen attestations
\* with confidence above 0 scores strictly above 50.
NetPositiveScoresAboveNeutral ==
  NetPositiveEvidence => conviction.score > 50

\* C12 amended: such a list scores at least 50, and strictly above 50 when
\* its weighted sum is worth at least one score point (25 * sum >= 1).
NetPositiveScoresAtLeastNeutral ==
  NetPositiveEvidence =>
    /\ conviction.score >= 50
    /\ WeightedSum >= WeightPerPoint => conviction.score > 50

\* two positive attestations, neither worth a point alone, together lifting
\* the score above 50
NetPositiveScoresWitness ==
  /\ NetPositiveEvidence
  /\ Len(atts) = 2
  /\ \A i \in 1..Len(atts) : FinalWeight(atts[i]) < WeightPerPoint
  /\ WeightedSum >= WeightPerPoint
  /\ conviction.score > 50

----------------------------------------------------------------------------
(* Properties of temporal decay *)

\* C14 as claimed: of two contributions that differ only in age the older
\* is never the larger (in magnitude), and it is strictly smaller unless it
\* sits at the decay floor, which only the edge decay has (10% of strength).
OlderContributesStrictlyLess ==
  decay.kind \in {"attestation", "edge"} =>
    /\ Abs(decay.older) <= Abs(decay.newer)
    /\ \/ Abs(decay.older) < Abs(decay.newer)
       \/ decay.kind = "edge" /\ decay.older = decay.floor

\* C14 amended: the older contribution is never the larger in magnitude, and
\* it is strictly smaller unless the newer one is zero (confidence 0, unknown
\* attestation type, strength 0) or the older one sits at the edge floor.
OlderContributesLessUnlessZero ==
  decay.kind \in {"attestation", "edge"} =>
    /\ Abs(decay.older) <= Abs(decay.newer)
    /\ \/ Abs(decay.older) < Abs(decay.newer)
       \/ decay.newer = 0
       \/ decay.kind = "edge" /\ decay.older = decay.floor

\* an edge whose older age is still above the floor, strictly weaker
OlderContributesLessWitness ==
  /\ decay.kind = "edge"
  /\ decay.floor > 0
  /\ decay.floor < decay.older
  /\ decay.older < decay.newer

----------------------------------------------------------------------------
(* Properties of the attester lookup *)

\* the recorded attestations with every unresolved attester (no row, or a
\* failed lookup) given the default reputation 50
WithDefaultReputation ==
  [i \in 1..Len(atts) |->
     IF atts[i].reputation \in {NoEntity, LookupFailed}
     THEN [atts[i] EXCEPT !.reputation = 50] ELSE atts[i]]

\* C15: when the lookup of an attester fails or finds nothing,
\* calculate_conviction still returns a result, and its score is the one
\* computed with reputation 50 (multiplier 1.25) for that attester and the
\* usual weights for the others.
UnresolvedAttesterGetsDefault ==
  (\E i \in 1..Len(atts) : atts[i].reputation \in {NoEntity, LookupFailed})
    => /\ conviction # ConvictionRaised
       /\ conviction.score = CalculateConviction(WithDefaultReputation).score

\* the part of C15 the code keeps: an attester without a row is weighted
\* with the default reputation
MissingAttesterGetsDefault ==
  (/\ \E i \in 1..Len(atts) : atts[i].reputation = NoEntity
   /\ \A i \in 1..Len(atts) : atts[i].reputation # LookupFailed)
    => /\ conviction # ConvictionRaised
       /\ conviction.score = CalculateConviction(WithDefaultReputation).score

----------------------------------------------------------------------------
(* Properties of the trust engine *)

TrustScoreCalled == trustScore.caller # "none"

\* C16: calculate_trust_score returns a value in [0, 1] for every table,
\* entity and max_depth, with the privacy noise on or off, and for an entity
\* without edges it returns a score in [0, 1] as well (it does not raise).
TrustScoreInUnitRange ==
  TrustScoreCalled => trustScore.result \in 0..1000

\* a score computed with privacy off for an entity with edges, whose
\* combined value lies above 1.0 and is clamped, and an entity without
\* edges scoring its default
TrustScoreInUnitRangeWitness ==
  /\ TrustScoreCalled
  /\ ~enable_privacy
  /\ \/ /\ RowsOf(rels, trustScore.entity_id) # {}
        /\ CombinedTrustScore(rels, trustScore.entity_id, trustScore.max_depth) > 1000
        /\ trustScore.result = 1000
     \/ /\ RowsOf(rels, trustScore.entity_id) = {}
        /\ trustScore.result \in 1..999

\* C17: the trust_score update_trust_metrics persists is the noise-free
\* score, so for a fixed table every execution persists the same value; the
\* privacy noise reaches only values handed to external consumers.
PersistedTrustScoreNoiseFree ==
  \A e \in Entities :
    trustMetrics[e] # NoMetrics =>
      trustMetrics[e] = CalculateTrustScore(rels, e, 3, FALSE, 0)

----------------------------------------------------------------------------
(* Properties of attestation ingestion *)

\* C18: once an attestation is stored under a uri, no later ingestion, by
\* either route and with the same uri delivered again, changes its type or
\* its confidence.
StoredAttestationImmutable ==
  [][\A u \in Uris :
       attTable[u] # NoRow =>
         /\ attTable'[u] # NoRow
         /\ attTable'[u].attestation_type = attTable[u].attestation_type
         /\ attTable'[u].confidence = attTable[u].confidence]_vars

\* every ingestion that started has run to completion, and one did start
IngestionsCompleted ==
  /\ \A p \in Ingestions : ingest[p].pc \in {"idle", "done", "failed"}
  /\ \E p \in Ingestions : ingest[p].pc # "idle"

\* the counts of a conviction result
ConvictionCounts(c) ==
  <<c.attestation_count, c.verify_count, c.dispute_count,
    c.strengthen_count, c.weaken_count>>

\* C19: when the concurrent ingestions for the target have run to
\* completion, the conviction_scores row has the counts of conviction
\* recomputed over all stored attestations, and getScore answers them.
StoredScoreReflectsAttestations ==
  IngestionsCompleted =>
    LET recomputed == CalculateConviction(SelectAttestations(attTable, 1))
        answer == GetConvictionScore(scoreRow, attTable).reply
    IN /\ scoreRow # NoRow
       /\ ConvictionCounts(scoreRow) = ConvictionCounts(recomputed)
       /\ answer.kind = "score"
       /\ ConvictionCounts(answer.conviction) = ConvictionCounts(recomputed)

----------------------------------------------------------------------------
\* C20: with no worker draining the queues, enqueue returns True whenever
\* the events queued across all priorities number fewer than
\* max_queue_size * backpressure_threshold, whatever their priorities, and
\* once that total is reached it returns False with backpressure_active set.
EnqueueAcceptsBelowThreshold ==
  lastEnqueue.called =>
    /\ lastEnqueue.result =
         ~BackpressureReached(lastEnqueue.total_events, pipeConfig)
    /\ (~lastEnqueue.result => metrics.backpressure_active)

----------------------------------------------------------------------------
(* Event pipeline: what became of an event *)

\* the event waits in a priority queue
Queued(event_id) ==
  \E p \in EventPriority : \E k \in 1..Len(queues[p]) :
    queues[p][k].event_id = event_id

\* a worker holds the event (taken from its queue, attempt not finished)
HeldByWorker(event_id) ==
  \E w \in 1..MaxWorkers :
    workers[w].pc \in {"got", "backoff"} /\ workers[w].event.event_id = event_id

AttemptPending(event_id) == Queued(event_id) \/ HeldByWorker(event_id)

\* number of times processor.process was called with the event
Attempts(event_id) ==
  Cardinality({k \in 1..Len(processed_events) :
                 processed_events[k].event_id = event_id})

DeadLetterEntries(event_id) ==
  Cardinality({k \in 1..Len(dead_letter) : dead_letter[k].event_id = event_id})

\* processor.process returned True for the event
ProcessedSuccessfully(event_id) ==
  \E k \in 1..Len(processed_events) :
    /\ processed_events[k].event_id = event_id
    /\ processed_events[k].event_type = "succeeds"

\* C21: an event whose processor raises on every attempt is handed to the
\* processor exactly 4 times, never more, and after the last attempt it is
\* in the dead-letter queue: it is never handed over more than 4 times, and
\* once no attempt of it is pending it was handed over 4 times and is in
\* the dead-letter queue.
RaisingEventRetriedThenDeadLettered ==
  \A event \in accepted :
    event.event_type = "raises" =>
      /\ Attempts(event.event_id) <= 4
      /\ (~AttemptPending(event.event_id) =>
            /\ Attempts(event.event_id) = 4
            /\ DeadLetterEntries(event.event_id) >= 1)

\* C22: whenever a worker starts processing an event, no event of strictly
\* higher priority is waiting in any queue.
WorkerStartsHighestPriorityWaiting ==
  [][\A w \in 1..MaxWorkers :
       (workers[w].pc = "got" /\ workers'[w].pc # "got") =>
         \A p \in EventPriority :
           p > workers[w].event.priority => queues[p] = <<>>]_vars

\* C28: with the pipeline running and the workers scheduled fairly, every
\* event whose enqueue returned True is eventually processed successfully
\* or recorded in the dead-letter queue.
AcceptedEventNeverLost ==
  \A event_id \in EventIds :
    (\E event \in accepted : event.event_id = event_id)
      ~> (ProcessedSuccessfully(event_id) \/ DeadLetterEntries(event_id) >= 1)

\* C29: an event is appended to the dead-letter queue at most once, and
\* from the moment it is there no attempt of it is pending in a queue or
\* at a worker.
DeadLetteredOnceAndFinal ==
  \A event_id \in EventIds :
    /\ DeadLetterEntries(event_id) <= 1
    /\ (DeadLetterEntries(event_id) >= 1 => ~AttemptPending(event_id))

----------------------------------------------------------------------------
(* Caches *)

\* C23: for a CacheService created with backend "redis" and
\* fallback_to_memory = True whose Redis server answers no operation, a
\* value written with set(key, value) is returned by a following get(key).
FallbackServesWrittenValue ==
  (/\ svcLast.op = "get"
   /\ svcConfig.fallback_to_memory
   /\ ~svcConfig.redis_reachable
   /\ svcWritten[svcLast.key] # NoValue)
    => svcLast.result = svcWritten[svcLast.key]

\* keys and values of a cache in insertion order
KeyValues(c) == [k \in 1..Len(c) |-> [key |-> c[k].key, value |-> c[k].value]]

\* C24: the memory cache never holds more than max_size keys; setting a
\* new key into a full cache evicts exactly the earliest-inserted key still
\* present and leaves every other key and value unchanged; overwriting an
\* existing key evicts nothing.
MemoryCacheBoundedFifo ==
  /\ Len(memCache) <= memMaxSize
  /\ memLast.op = "set" =>
       LET before == KeyValues(memLast.before)
           stored == [key |-> memLast.key, value |-> memLast.value]
       IN IF HasKey(before, memLast.key)
          THEN KeyValues(memCache) =
                 [before EXCEPT ![IndexOf(before, memLast.key)] = stored]
          ELSE IF Len(before) >= memMaxSize
               THEN KeyValues(memCache) = Append(Tail(before), stored)
               ELSE KeyValues(memCache) = Append(before, stored)

\* a new key was set into a full cache and the oldest key made room
MemoryCacheBoundedFifoWitness ==
  /\ memLast.op = "set"
  /\ memMaxSize = 2
  /\ Len(memLast.before) = 2
  /\ ~HasKey(memLast.before, memLast.key)
  /\ ~HasKey(memCache, memLast.before[1].key)
  /\ memCache[1] = memLast.before[2]

----------------------------------------------------------------------------
(* Conviction: the final score *)

\* total_weight of the recorded attestations
TotalWeight == SeqSum([i \in 1..Len(atts) |-> Abs(FinalWeight(atts[i]))])

\* 50 + 25 * weighted_sum, numerator over WeightPerPoint
PreClampScore == 50 * WeightPerPoint + WeightedSum

\* Python round(num / den), den > 0: to the nearest integer, a tie to the
\* even one
RoundHalfEven(num, den) ==
  LET q == num \div den
      r == num - q * den
  IN IF 2 * r < den THEN q
     ELSE IF 2 * r > den THEN q + 1
     ELSE IF q % 2 = 0 THEN q ELSE q + 1

\* C25 as claimed: with non-zero total weight the score is 50 + 25 x
\* weightedSum rounded to the nearest integer, then clamped to [0, 100].
ScoreIsRoundedPreClamp ==
  (atts # <<>> /\ TotalWeight # 0) =>
    conviction.score = Max(0, Min(100, RoundHalfEven(PreClampScore, WeightPerPoint)))

\* C25 amended: with non-zero total weight the score is the whole part of
\* 50 + 25 x weightedSum clamped to [0, 100]: the fraction is dropped
\* (72.8 gives 72, 49.6 gives 49), never rounded up.
ScoreIsTruncatedPreClamp ==
  (atts # <<>> /\ TotalWeight # 0) =>
    /\ conviction.score \in 0..100
    /\ conviction.score < 100 => PreClampScore < (conviction.score + 1) * WeightPerPoint
    /\ conviction.score > 0 => PreClampScore >= conviction.score * WeightPerPoint

\* a pre-clamp value whose fraction is a half or more, scored by its whole
\* part
ScoreIsTruncatedWitness ==
  /\ atts # <<>>
  /\ TotalWeight # 0
  /\ conviction.score \in 1..99
  /\ 2 * (PreClampScore - conviction.score * WeightPerPoint) >= WeightPerPoint


\* C26: after a trust score has been calculated for an entity, each of the
\* four direct signals of that entity (reputation, reciprocity, consistency,
\* verification ratio) lies between 0 and 1, and so does their composite,
\* for every table of relationships with strengths on the 0..100 scale,
\* the empty table included.
DirectSignalsInUnitRange ==
  trustScore.caller # "none" =>
    LET e == trustScore.entity_id
    IN /\ CalculateReputation(rels, e) \in 0..1000
       /\ CalculateReciprocity(rels, e) \in 0..1000
       /\ CalculateConsistency(rels, e) \in 0..1000
       /\ CalculateVerificationRatio(rels, e) \in 0..1000
       /\ CalculateDirectMetrics(rels, e) \in 0..1000


\* C27: within one calculate_trust_score(E, maxDepth) call no chain of
\* nested network-trust calls holds the same entity twice (the propagation
\* never re-enters an entity already on the chain), and no chain is longer
\* than maxDepth (one call for maxDepth 0).
PropagationNeverReenters ==
  trustScore.caller # "none" =>
    \A c \in PropagationChains(rels, trustScore.entity_id, trustScore.max_depth) :
      /\ \A i, j \in 1..Len(c) : i # j => c[i] # c[j]
      /\ Len(c) <= Max(1, trustScore.max_depth)


====
